---- MODULE Spec2Model ----
(***************************************************************************)
(* Retrieval-and-orchestration pipeline of the construction-safety report  *)
(* agent: the per-partition hybrid retriever, the partition plan and the   *)
(* multi-partition search of RAGAgent, the human-feedback refinement loop  *)
(* (RAGAgent.run and perform_rag_search_with_hitl) and the orchestrator's  *)
(* next-agent decision.                                                    *)
(*                                                                         *)
(* Conventions.  A document is a record [db, id]: the partition whose      *)
(* index stores it and its position in that partition's docstore.  The     *)
(* external services (vector search, BM25, cross-encoder, the LLM that     *)
(* judges duplicates, the human in front of the UI) are inputs: their      *)
(* answers are drawn from small sets, and the answers of the index         *)
(* services are functions of the stored corpus and of the query, so that   *)
(* an unchanged index answers an unchanged query the same way.  A call is  *)
(* modelled by the value its body computes.                                *)
(***************************************************************************)
EXTENDS Integers, Sequences, FiniteSets, TLC

(***************************************************************************)
(* Program constants                                                       *)
(***************************************************************************)
max_feedback_loops == 3
InitialCap == 10
MergeCap == 15
FallbackThreshold == 3
SearchTopK == 5
RerankTopN == 5
SparseFactor == 4
AlphaPct == 50
\* largest magnitude of a dense score, in hundredths
MaxDense == 3
\* largest number of sparse results fused
MaxSparse == 3
DedupWindow == 3

(***************************************************************************)
(* Bounds of the model                                                     *)
(***************************************************************************)
DocsPerDb == 6
MaxKeyword == 2

(***************************************************************************)
(* Partition catalog                                                       *)
(***************************************************************************)
GeneralDb == "08_general"
available_dbs == <<"01_bridge", "05_crane", "08_general">>
UnknownDb == "99_unknown"

Range(s) == {s[i] : i \in 1..Len(s)}
Min(a, b) == IF a <= b THEN a ELSE b
Take(s, n) == SubSeq(s, 1, Min(n, Len(s)))
CatalogDbs == Range(available_dbs)
DbNames == CatalogDbs \cup {UnknownDb}

Doc(p, i) == [db |-> p, id |-> i]
AllDocs == {Doc(p, i) : p \in CatalogDbs, i \in 1..DocsPerDb}
\* file and section of the chunk: two consecutive chunks share a section
Section(d) == <<d.db, (d.id + 1) \div 2>>

(***************************************************************************)
(* Sorting as list.sort(key=score, reverse=True) does it: descending and   *)
(* stable (equal scores keep their order of arrival).                      *)
(***************************************************************************)
InsertDesc(sorted, x) ==
    LET k == Cardinality({i \in 1..Len(sorted) : sorted[i].score >= x.score})
    IN  SubSeq(sorted, 1, k) \o <<x>> \o SubSeq(sorted, k + 1, Len(sorted))

RECURSIVE SortDesc(_)
SortDesc(s) ==
    IF s = <<>> THEN <<>>
    ELSE InsertDesc(SortDesc(SubSeq(s, 1, Len(s) - 1)), s[Len(s)])

DocsOf(scored) == [j \in 1..Len(scored) |-> scored[j].doc]

(***************************************************************************)
(* External index services of one partition holding n documents.  A query  *)
(* is [base, kw]: the query text it starts from and the keyword set that   *)
(* was appended to it (0: none).                                           *)
(***************************************************************************)
QueryShift(q) == q.kw + (IF q.base = "user" THEN 1 ELSE 0)

Ranked(p, n, h) == [j \in 1..n |-> Doc(p, ((j - 1 + h) % n) + 1)]

similarity_search_with_score(p, n, q, k) ==
    LET order == Ranked(p, n, QueryShift(q))
    IN  [j \in 1..Min(k, n) |-> [doc |-> order[j], score |-> 100 - 15 * (j - 1)]]

get_relevant_documents(p, n, q, k) == Take(Ranked(p, n, QueryShift(q) + 1), k)

CrossScore(q) == [d \in AllDocs |-> ((d.id + QueryShift(q)) * 3) % 7]

(***************************************************************************)
(* SingleDBHybridRetriever                                                 *)
(***************************************************************************)
\* position of d in the lexical results (0-based), len(sparse) when absent
SparseRank(sparse, d) ==
    IF \E i \in 1..Len(sparse) : sparse[i] = d
    THEN (CHOOSE i \in 1..Len(sparse) :
             /\ sparse[i] = d
             /\ \A j \in 1..Len(sparse) : sparse[j] = d => j <= i) - 1
    ELSE Len(sparse)

\* alpha * ds + (1 - alpha) * (1 - sr / N), scaled by 100 * 100 * N
\* faulty variant of FusionScoreAt: the dense term is subtracted
FusionScoreAt_inverted(a, ds, sr, N) == (100 - a) * 100 * (N - sr) - a * ds * N

\* alpha * ds + (1 - alpha) * (1 - sr / N) for alpha = a / 100 and a dense
\* score of ds hundredths, times the positive constant 10000 * N
FusionScoreAt(a, ds, sr, N) == a * ds * N + (100 - a) * 100 * (N - sr)

FusionScore(ds, sr, N) == FusionScoreAt(AlphaPct, ds, sr, N)

\* faulty variant of HybridMergeRaises: the division is evaluated even when
\* there is no dense result
HybridMergeRaises_eager(dense, sparse) == sparse = <<>>

\* the division by len(sparse_results) is evaluated for every dense result
HybridMergeRaises(dense, sparse) == dense # <<>> /\ sparse = <<>>

\* faulty variant of hybrid_scored: a lexical result is added although the
\* dense results hold it
hybrid_scored_twice(dense, sparse) ==
    LET N == Len(sparse)
        fromDense == [j \in 1..Len(dense) |->
                        [doc |-> dense[j].doc,
                         score |-> FusionScore(dense[j].score,
                                               SparseRank(sparse, dense[j].doc), N)]]
        allSparse == [i \in 1..N |->
                        [doc |-> sparse[i], score |-> FusionScore(0, i - 1, N)]]
    IN  SortDesc(fromDense \o allSparse)

\* the list "merged" of _hybrid_merge after its sort: (doc, score) pairs
hybrid_scored(dense, sparse) ==
    LET N == Len(sparse)
        inDense(d) == \E j \in 1..Len(dense) : dense[j].doc = d
        fromDense == [j \in 1..Len(dense) |->
                        [doc |-> dense[j].doc,
                         score |-> FusionScore(dense[j].score,
                                               SparseRank(sparse, dense[j].doc), N)]]
        allSparse == [i \in 1..N |->
                        [doc |-> sparse[i], score |-> FusionScore(0, i - 1, N)]]
        sparseOnly(r) == ~inDense(r.doc)
    IN  SortDesc(fromDense \o SelectSeq(allSparse, sparseOnly))

hybrid_merge(dense, sparse) == DocsOf(hybrid_scored(dense, sparse))

compress_documents(docs, cross, top_n) ==
    Take(DocsOf(SortDesc([j \in 1..Len(docs) |->
                            [doc |-> docs[j], score |-> cross[docs[j]]]])), top_n)

\* faulty variant of retrieve: the reranked list is returned without the cut
retrieve_uncut(dense, sparse, cross, top_k) ==
    IF HybridMergeRaises(dense, sparse)
    THEN [ok |-> FALSE, docs |-> <<>>]
    ELSE [ok |-> TRUE,
          docs |-> compress_documents(hybrid_merge(dense, sparse), cross, RerankTopN)]

\* retrieve(): [ok |-> FALSE] when an exception leaves it
retrieve(dense, sparse, cross, top_k) ==
    IF HybridMergeRaises(dense, sparse)
    THEN [ok |-> FALSE, docs |-> <<>>]
    ELSE [ok |-> TRUE,
          docs |-> Take(compress_documents(hybrid_merge(dense, sparse), cross, RerankTopN),
                        top_k)]

\* the stored size of a partition whose index.faiss is there while the store
\* cannot be read: FAISS.load_local, or the embedding request of the dense
\* step, raises
Unreadable == -1

\* what leaves retrieve() when its dense step raises: nothing in retrieve()
\* catches the exception
DenseStepRaised == [ok |-> FALSE, docs |-> <<>>]

\* SingleDBHybridRetriever(db_dir, top_k, alpha = 0.5).retrieve(query)
RetrieveFromDb(p, n, q, top_k) ==
    IF n = Unreadable THEN DenseStepRaised
    ELSE retrieve(similarity_search_with_score(p, n, q, top_k),
                  get_relevant_documents(p, n, q, top_k * SparseFactor),
                  CrossScore(q), top_k)

(***************************************************************************)
(* RAGAgent: partition plan and multi-partition search                     *)
(***************************************************************************)
InCatalog(p) == p \in CatalogDbs
DefaultDb == IF GeneralDb \in CatalogDbs THEN GeneralDb ELSE available_dbs[1]

\* faulty variant of sanitize_plan: an unknown name is replaced by the default
\* partition where it stands
sanitize_plan_replacing(plan) ==
    [db_list |-> IF plan.db_list = <<>> THEN <<DefaultDb>>
                 ELSE [i \in 1..Len(plan.db_list) |->
                          IF InCatalog(plan.db_list[i]) THEN plan.db_list[i] ELSE DefaultDb],
     fallback |-> plan.fallback,
     fallback_db |-> IF plan.fallback /\ ~InCatalog(plan.fallback_db)
                     THEN DefaultDb ELSE plan.fallback_db]

\* faulty variant of sanitize_plan: the fallback partition is not verified
sanitize_plan_unverified(plan) ==
    LET valid_db_list == SelectSeq(plan.db_list, InCatalog)
    IN  [db_list |-> IF valid_db_list # <<>> THEN valid_db_list ELSE <<DefaultDb>>,
         fallback |-> plan.fallback,
         fallback_db |-> plan.fallback_db]

sanitize_plan(plan) ==
    LET valid_db_list == SelectSeq(plan.db_list, InCatalog)
        db_list == IF valid_db_list # <<>> THEN valid_db_list
                   ELSE IF GeneralDb \in CatalogDbs THEN <<GeneralDb>>
                   ELSE IF available_dbs # <<>> THEN <<available_dbs[1]>>
                   ELSE <<>>
        fix == plan.fallback /\ plan.fallback_db \notin CatalogDbs
    IN  [db_list |-> db_list,
         fallback |-> IF fix /\ available_dbs = <<>> THEN FALSE ELSE plan.fallback,
         fallback_db |-> IF ~fix THEN plan.fallback_db
                         ELSE IF GeneralDb \in CatalogDbs THEN GeneralDb
                         ELSE IF available_dbs # <<>> THEN available_dbs[1]
                         ELSE ""]

\* os.path.exists(<db>/index.faiss): a partition of the catalog has an index
\* file when documents were indexed for it (readable or not)
HasIndex(world, p) == p \in DOMAIN world /\ world[p] # 0

\* faulty variant of search_documents: the search stops at the first partition
\* that has no index
RECURSIVE search_documents_stopping(_, _, _, _)
search_documents_stopping(world, db_list, q, top_k) ==
    IF db_list = <<>> THEN [ok |-> TRUE, docs |-> <<>>]
    ELSE LET db_name == db_list[1]
             rest == SubSeq(db_list, 2, Len(db_list))
         IN  IF ~HasIndex(world, db_name)
             THEN [ok |-> TRUE, docs |-> <<>>]
             ELSE LET r == RetrieveFromDb(db_name, world[db_name], q, top_k)
                      more == search_documents_stopping(world, rest, q, top_k)
                  IN  IF ~r.ok THEN r
                      ELSE IF ~more.ok THEN more
                      ELSE [ok |-> TRUE, docs |-> r.docs \o more.docs]

RECURSIVE search_documents(_, _, _, _)
search_documents(world, db_list, q, top_k) ==
    IF db_list = <<>> THEN [ok |-> TRUE, docs |-> <<>>]
    ELSE LET db_name == db_list[1]
             rest == SubSeq(db_list, 2, Len(db_list))
         IN  IF ~HasIndex(world, db_name)
             THEN search_documents(world, rest, q, top_k)
             ELSE LET r == RetrieveFromDb(db_name, world[db_name], q, top_k)
                      more == search_documents(world, rest, q, top_k)
                  IN  IF ~r.ok THEN r
                      ELSE IF ~more.ok THEN more
                      ELSE [ok |-> TRUE, docs |-> r.docs \o more.docs]

\* faulty variant of FallbackQueried: the count of merged documents is ignored
FallbackQueried_always(world, plan, q) ==
    LET first == search_documents(world, plan.db_list, q, SearchTopK)
    IN  /\ first.ok
        /\ plan.fallback
        /\ plan.fallback_db # ""

\* RAGAgent.run steps 3-5: selected partitions, fallback partition, cut
FallbackQueried(world, plan, q) ==
    LET first == search_documents(world, plan.db_list, q, SearchTopK)
    IN  /\ first.ok
        /\ plan.fallback
        /\ Len(first.docs) < FallbackThreshold
        /\ plan.fallback_db # ""

InitialSearch(world, plan, q) ==
    LET first == search_documents(world, plan.db_list, q, SearchTopK)
    IN  IF ~first.ok THEN first
        ELSE IF FallbackQueried(world, plan, q) /\ HasIndex(world, plan.fallback_db)
        THEN LET fb == RetrieveFromDb(plan.fallback_db, world[plan.fallback_db],
                                      q, SearchTopK)
             IN  IF ~fb.ok THEN fb
                 ELSE [ok |-> TRUE, docs |-> Take(first.docs \o fb.docs, InitialCap)]
        ELSE [ok |-> TRUE, docs |-> Take(first.docs, InitialCap)]

(***************************************************************************)
(* AdvancedDocumentProcessor: duplicate removal.  The duplicate judge is   *)
(* an LLM told to call a document a duplicate when one of the last three   *)
(* kept documents has its file and section; a failed call counts as "not   *)
(* a duplicate".                                                           *)
(***************************************************************************)
\* faulty variant of check_duplicate: every later document is a duplicate
check_duplicate_always(judge, new_doc, existing_docs) ==
    judge = "criteria" /\ existing_docs # <<>>

check_duplicate(judge, new_doc, existing_docs) ==
    LET m == Len(existing_docs)
        recent == SubSeq(existing_docs, IF m > DedupWindow THEN m - DedupWindow + 1 ELSE 1, m)
    IN  /\ judge = "criteria"
        /\ \E i \in 1..Len(recent) : Section(recent[i]) = Section(new_doc)

RECURSIVE remove_duplicates(_, _)
remove_duplicates(judge, docs) ==
    IF Len(docs) <= 1 THEN docs
    ELSE LET unique_docs == remove_duplicates(judge, SubSeq(docs, 1, Len(docs) - 1))
             new_doc == docs[Len(docs)]
         IN  IF check_duplicate(judge, new_doc, unique_docs)
             THEN unique_docs
             ELSE Append(unique_docs, new_doc)

(***************************************************************************)
(* HumanFeedbackCollector.  A typed selection is a list of comma-separated *)
(* parts: a number [k |-> "n", a], a range [k |-> "r", a, b], or text that *)
(* int() rejects [k |-> "bad"].  A reply is [replied, parts]; replied is   *)
(* FALSE when AskUserMessage times out and returns None.                   *)
(***************************************************************************)
RECURSIVE SortedSeq(_)
SortedSeq(S) ==
    IF S = {} THEN <<>>
    ELSE LET m == CHOOSE x \in S : \A y \in S : x <= y
         IN  <<m>> \o SortedSeq(S \ {m})

PartIndices(part) ==
    IF part.k = "n" THEN {part.a} ELSE IF part.k = "r" THEN part.a..part.b ELSE {}

ParseSelectionRaises(parts) == \E i \in 1..Len(parts) : parts[i].k = "bad"

\* faulty variant of parse_selection: the indices come out in descending order
parse_selection_descending(parts, max_num) ==
    LET indices == UNION {PartIndices(parts[i]) : i \in 1..Len(parts)}
        sorted == SortedSeq({i \in indices : 1 <= i /\ i <= max_num})
    IN  [j \in 1..Len(sorted) |-> sorted[Len(sorted) + 1 - j]]

parse_selection(parts, max_num) ==
    LET indices == UNION {PartIndices(parts[i]) : i \in 1..Len(parts)}
    IN  SortedSeq({i \in indices : 1 <= i /\ i <= max_num})

select_documents(docs, reply) ==
    IF ~reply.replied \/ ParseSelectionRaises(reply.parts) THEN <<>>
    ELSE LET indices == parse_selection(reply.parts, Len(docs))
         IN  [j \in 1..Len(indices) |-> docs[indices[j]]]

select_databases(dbs, reply) == select_documents(dbs, reply)

\* the choice read from the reply: "1".."5", and "1" for any other text and
\* when no reply came
get_user_action(reply) ==
    IF reply.replied /\ reply.choice \in {"1", "2", "3", "4", "5"} THEN reply.choice
    ELSE "1"

NoFeedback == [action |-> "none", keywords |-> <<>>, dbs |-> <<>>,
               original_docs |-> <<>>, web_search_requested |-> FALSE]

\* the documents process() previews: the duplicate-free list when advanced
\* processing is enabled
Presented(adv, judge, docs) == IF adv THEN remove_duplicates(judge, docs) ELSE docs

\* faulty variant of process: a partial selection is returned as it is, also
\* when it is empty
process_unchecked(adv, judge, docs, inp) ==
    IF docs = <<>>
    THEN [docs |-> docs, fb |-> [NoFeedback EXCEPT !.action = "no_docs"]]
    ELSE IF get_user_action(inp.action) = "2"
    THEN [docs |-> select_documents(Presented(adv, judge, docs), inp.selection),
          fb |-> [NoFeedback EXCEPT !.action = "select_partial"]]
    ELSE [docs |-> Presented(adv, judge, docs),
          fb |-> [NoFeedback EXCEPT !.action = "accept_all"]]

\* process(docs, query, available_dbs) -> (docs, feedback)
process(adv, judge, docs, inp) ==
    IF docs = <<>>
    THEN [docs |-> docs, fb |-> [NoFeedback EXCEPT !.action = "no_docs"]]
    ELSE LET shown == Presented(adv, judge, docs)
             action == get_user_action(inp.action)
             accept == [docs |-> shown, fb |-> [NoFeedback EXCEPT !.action = "accept_all"]]
         IN  CASE action = "1" -> accept
               [] action = "2" ->
                    LET selected_docs == select_documents(shown, inp.selection)
                    IN  IF selected_docs # <<>>
                        THEN [docs |-> selected_docs,
                              fb |-> [NoFeedback EXCEPT !.action = "select_partial"]]
                        ELSE accept
               [] action = "3" ->
                    [docs |-> shown,
                     fb |-> [NoFeedback EXCEPT !.action = "research_keyword",
                                               !.keywords = inp.keywords,
                                               !.original_docs = shown]]
               [] action = "4" ->
                    [docs |-> shown,
                     fb |-> [NoFeedback EXCEPT !.action = "research_db",
                                               !.dbs = select_databases(available_dbs,
                                                                        inp.dbsel),
                                               !.original_docs = shown]]
               [] action = "5" ->
                    [docs |-> shown,
                     fb |-> [NoFeedback EXCEPT !.action = "accept_all",
                                               !.web_search_requested = TRUE]]
               [] OTHER -> accept

\* should_enable_feedback(state, docs); enable_human_feedback is "unset" when
\* the key is absent from the state
should_enable_feedback(st, docs) ==
    IF st.enable_human_feedback # "unset" THEN st.enable_human_feedback = "on"
    ELSE IF st.user_intent = "csv_info" THEN FALSE
    ELSE IF st.user_intent = "search_only" THEN docs # <<>> /\ Len(docs) < 3
    ELSE TRUE

(***************************************************************************)
(* Inputs                                                                  *)
(***************************************************************************)
StructuredQuery == [base |-> "structured", kw |-> 0]
UserQuery == [base |-> "user", kw |-> 0]
Enhanced(q, keywords) == [q EXCEPT !.kw = keywords[1]]

\* what the routing LLM may answer (after parse_json_with_recovery)
RawPlan(l, f, fdb) == [db_list |-> l, fallback |-> f, fallback_db |-> fdb]
RawPlans == {RawPlan(<<>>, FALSE, GeneralDb),
             RawPlan(<<"05_crane">>, TRUE, GeneralDb),
             RawPlan(<<"05_crane">>, TRUE, UnknownDb),
             RawPlan(<<"01_bridge", "05_crane">>, FALSE, GeneralDb),
             RawPlan(<<UnknownDb, "05_crane", "05_crane">>, TRUE, "05_crane"),
             RawPlan(<<"01_bridge", "05_crane", "08_general", "05_crane">>, FALSE,
                     UnknownDb)}

\* stored corpus: number of documents indexed per catalog partition
World(b, c, g) == [p \in CatalogDbs |->
                     IF p = "01_bridge" THEN b ELSE IF p = "05_crane" THEN c ELSE g]
Worlds == {World(0, 0, 0), World(0, 2, DocsPerDb), World(DocsPerDb, 2, 0),
           World(DocsPerDb, DocsPerDb, DocsPerDb)}

N(i) == [k |-> "n", a |-> i, b |-> i]
R(i, j) == [k |-> "r", a |-> i, b |-> j]
Bad == [k |-> "bad", a |-> 0, b |-> 0]
Typed(parts) == [replied |-> TRUE, parts |-> parts]
NoReply == [replied |-> FALSE, parts |-> <<>>]
SelectionReplies == {NoReply, Typed(<<N(3), N(1), N(3)>>), Typed(<<R(2, 4), N(99)>>),
                     Typed(<<N(0), N(99)>>), Typed(<<N(2), Bad>>)}
DbReplies == {Typed(<<N(2)>>), Typed(<<R(1, 2)>>), Typed(<<N(9)>>)}
KeywordReplies == {<<>>} \cup {<<k>> : k \in 1..MaxKeyword}
Chose(c) == [replied |-> TRUE, choice |-> c]
TimedOut == [replied |-> FALSE, choice |-> "1"]

Input(a, sel, kws, dbsel) ==
    [action |-> a, selection |-> sel, keywords |-> kws, dbsel |-> dbsel]
FeedbackInputs ==
    {Input(TimedOut, NoReply, <<>>, NoReply), Input(Chose("1"), NoReply, <<>>, NoReply),
     Input(Chose("5"), NoReply, <<>>, NoReply), Input(Chose("cancel"), NoReply, <<>>, NoReply)}
    \cup {Input(Chose("2"), sel, <<>>, NoReply) : sel \in SelectionReplies}
    \cup {Input(Chose("3"), NoReply, kws, NoReply) : kws \in KeywordReplies}
    \cup {Input(Chose("4"), NoReply, <<>>, dbsel) : dbsel \in DbReplies}

Sessions == {[user_intent |-> "generate_report", enable_human_feedback |-> "unset"],
             [user_intent |-> "search_only", enable_human_feedback |-> "unset"],
             [user_intent |-> "csv_info", enable_human_feedback |-> "on"],
             [user_intent |-> "generate_report", enable_human_feedback |-> "off"]}

(***************************************************************************)
(* State                                                                   *)
(***************************************************************************)
VARIABLES
    flow,                  \* "run": RAGAgent.run, "chainlit": perform_rag_search_with_hitl
    pc,                    \* "start", "await" (blocked in process()), "done", "raised"
    corpus,                \* documents indexed per partition
    judge,                 \* how the duplicate judge answers
    enable_advanced_processing,
    state,                 \* AgentState fields read and written here
    plan,                  \* the partition plan in use
    final_docs,            \* the working document set
    feedback_loop_count,
    result,                \* what perform_rag_search_with_hitl returns
    initial_docs,          \* history: output of the first retrieval
    prev_docs,             \* history: working set before the last decision
    shown_docs,            \* history: documents presented at the last decision
    last_input,            \* history: the last decision's input
    decisions,             \* history: number of decisions taken
    last,                  \* history: the last decision
    before_last            \* history: the decision before it

\* the variables of the refinement loop other than the session state
loopVars == <<flow, pc, corpus, judge, enable_advanced_processing, plan,
              final_docs, feedback_loop_count, result, initial_docs, prev_docs,
              shown_docs, last_input, decisions, last, before_last>>

VARIABLES
    o_pc,                  \* workflow: "idle", "run" (graph loops), "stopped"
    o_resp,                \* history: the reasoning call's last response
    o_next,                \* history: what decide_next_agent returned last
    o_at,                  \* history: the session state it was called with
    o_runs                 \* number of runs of the orchestrator node so far

orchVars == <<o_pc, o_resp, o_next, o_at, o_runs>>

VARIABLES
    r_pc,                  \* retriever: "idle", "input", "one", "round"
    r_in,                  \* the inputs of the call
    r_out                  \* what the call returned

retVars == <<r_pc, r_in, r_out>>

VARIABLES
    s_pc,                  \* per handler of the session: "idle", "hitl", "returned"
    s_ckpt,                \* the graph state checkpointed under the session's thread_id
    s_event,               \* per handler: the event (state values) it holds
    s_level,               \* per handler: nesting depth of its graph.stream loops
    s_writes               \* history: the handlers that wrote the checkpoint, in order

sessVars == <<s_pc, s_ckpt, s_event, s_level, s_writes>>

VARIABLES
    g_node,                \* graph of build_complete_graph: the node to run next
    g_state,               \* its AgentState
    g_route,               \* history: the last value a conditional-edge function returned
    g_paused               \* interrupted before g_node

graphVars == <<g_node, g_state, g_route, g_paused>>

vars == <<loopVars, state, orchVars, retVars, sessVars, graphVars>>

FreshState(intent, ehf, has_query) ==
    [user_intent |-> intent,
     enable_human_feedback |-> ehf,
     user_query |-> has_query,
     web_search_requested |-> FALSE,
     web_search_completed |-> FALSE,
     web_search_count |-> 0,
     retrieved_docs |-> <<>>,
     docs_text |-> FALSE,
     sources |-> <<>>,
     source_references |-> <<>>,
     report_text |-> "",
     summary_cause |-> "",
     docx_path |-> "",
     web_docs |-> <<>>,
     next_agent |-> "",
     wait_for_user |-> FALSE,
     is_complete |-> FALSE]

NoResponse == [kind |-> "none", name |-> ""]
OrchIdle ==
    /\ o_pc = "idle"
    /\ o_resp = NoResponse
    /\ o_next = ""
    /\ o_at = FreshState("generate_report", "unset", TRUE)
    /\ o_runs = 0

NoCall == [kind |-> "none"]
RetIdle ==
    /\ r_pc = "idle"
    /\ r_in = NoCall
    /\ r_out = [ok |-> TRUE, docs |-> <<>>]

\* the on_message handlers of one session
Flows == {1, 2}
NoCheckpoint == [user_query |-> <<>>, user_intent |-> "search_only",
                 web_search_requested |-> FALSE, wait_for_user |-> FALSE,
                 is_complete |-> FALSE]
SessIdle ==
    /\ s_pc = [f \in Flows |-> "off"]
    /\ s_ckpt = NoCheckpoint
    /\ s_event = [f \in Flows |-> NoCheckpoint]
    /\ s_level = [f \in Flows |-> 0]
    /\ s_writes = <<>>

\* the graph of build_complete_graph
GraphNodes == {"intent", "sql_query", "accident_select", "show_accident",
               "disambiguation", "rag", "rag_feedback", "web", "report_writer",
               "docx", "router"}
END == "__end__"
\* what a run of the graph ends in when a conditional edge has no target for
\* the value its function returned
NoTarget == "no_target"
NoRoute == [from |-> "none", value |-> "none"]
\* next_node of a state no node has written
Unset == "unset"
GraphState0 ==
    [user_intent |-> Unset, next_node |-> Unset, phase |-> Unset,
     wait_for_user |-> FALSE, query_word |-> "", rows |-> 0,
     accident_row |-> FALSE, report_text |-> FALSE]
GraphIdle ==
    /\ g_node = "off"
    /\ g_state = GraphState0
    /\ g_route = NoRoute
    /\ g_paused = FALSE

\* what the services a node calls answer: the intent classifier, the SQL
\* agent and the report writer
GraphIntents == {"query_sql", "csv_info", "pure_guideline_search", "search_only",
                 "generate_report", "ask_user_disambiguation", "unknown"}
MaxRows == 2
NodeInputs == [intent : GraphIntents, accident_data : BOOLEAN,
               success : BOOLEAN, rows : 0..MaxRows, report_text : BOOLEAN]
\* the words of user_query that router_node looks for
QueryWords == {"", "rag", "report", "web"}

\* the node functions of MultiAgentNodes
node(n, st, in) ==
    CASE n = "intent" ->
           LET s1 == [st EXCEPT !.user_intent = in.intent] IN
           CASE in.intent = "query_sql" -> [s1 EXCEPT !.next_node = "sql_query"]
             [] in.intent = "csv_info" ->
                  IF in.accident_data
                  THEN [s1 EXCEPT !.accident_row = TRUE, !.next_node = "show_accident"]
                  ELSE [s1 EXCEPT !.next_node = "end"]
             [] in.intent \in {"pure_guideline_search", "search_only", "generate_report"} ->
                  [s1 EXCEPT !.next_node = "rag"]
             [] in.intent = "ask_user_disambiguation" ->
                  [s1 EXCEPT !.next_node = "disambiguation"]
             [] OTHER -> [s1 EXCEPT !.next_node = "end"]
      [] n = "sql_query" ->
           IF in.success
           THEN LET s1 == [st EXCEPT !.rows = in.rows] IN
                CASE in.rows > 1 ->
                       [s1 EXCEPT !.next_node = "accident_select",
                                  !.wait_for_user = TRUE, !.phase = "accident_select"]
                  [] in.rows = 1 ->
                       [s1 EXCEPT !.accident_row = TRUE, !.next_node = "show_accident",
                                  !.wait_for_user = TRUE, !.phase = "show_accident"]
                  [] OTHER -> [s1 EXCEPT !.next_node = "end"]
           ELSE [st EXCEPT !.rows = 0, !.next_node = "end"]
      [] n = "accident_select" ->
           IF st.rows = 0
           THEN [st EXCEPT !.next_node = "end"]
           ELSE [st EXCEPT !.wait_for_user = TRUE, !.phase = "accident_select",
                           !.next_node = "router"]
      [] n = "show_accident" ->
           IF ~st.accident_row
           THEN [st EXCEPT !.next_node = "end"]
           ELSE [st EXCEPT !.wait_for_user = TRUE, !.phase = "show_accident",
                           !.next_node = "router"]
      [] n = "disambiguation" ->
           [st EXCEPT !.wait_for_user = TRUE, !.phase = "disambiguation"]
      [] n = "rag" ->
           [st EXCEPT !.next_node = "rag_feedback", !.wait_for_user = TRUE,
                      !.phase = "rag_feedback"]
      [] n = "rag_feedback" ->
           [st EXCEPT !.wait_for_user = TRUE, !.phase = "rag_feedback"]
      [] n = "web" -> [st EXCEPT !.next_node = "rag_feedback"]
      [] n = "report_writer" ->
           IF in.report_text
           THEN [st EXCEPT !.report_text = TRUE, !.next_node = "report_approval",
                           !.wait_for_user = TRUE, !.phase = "report_approval"]
           ELSE [st EXCEPT !.report_text = FALSE, !.next_node = "end"]
      [] n = "docx" -> [st EXCEPT !.next_node = "end"]
      [] n = "router" ->
           CASE st.query_word = "rag" \/ st.user_intent \in {"search_only", Unset} ->
                  [st EXCEPT !.next_node = "rag"]
             [] st.query_word = "report" \/ st.user_intent = "generate_report" ->
                  [st EXCEPT !.next_node = "report_writer"]
             [] st.query_word = "web" -> [st EXCEPT !.next_node = "web"]
             [] OTHER -> [st EXCEPT !.next_node = "rag"]

\* the nodes that conditional edges leave
Branching == GraphNodes \ {"rag", "web", "docx"}
\* state.get("next_node", default)
next_node_or(st, default) == IF st.next_node = Unset THEN default ELSE st.next_node
\* the conditional-edge functions: route_from_intent, route_from_sql,
\* route_after_accident_select, route_after_show_accident,
\* route_after_disambiguation, route_after_rag_feedback, route_after_report,
\* route_from_router
route(n, st) ==
    CASE n = "accident_select" -> next_node_or(st, "router")
      [] n = "router" -> next_node_or(st, "rag")
      [] n = "rag_feedback" ->
           IF st.user_intent = "generate_report"
           THEN "report_writer" ELSE next_node_or(st, "end")
      [] OTHER -> next_node_or(st, "end")
\* the target map each add_conditional_edges call gives
targets(n) ==
    CASE n = "intent" ->
           [k \in {"sql_query", "show_accident", "rag", "disambiguation"} |-> k]
              @@ ("end" :> END)
      [] n = "sql_query" ->
           [k \in {"accident_select", "show_accident"} |-> k] @@ ("end" :> END)
      [] n = "accident_select" -> [k \in {"show_accident", "router"} |-> k]
      [] n = "show_accident" -> [k \in {"rag", "router"} |-> k] @@ ("end" :> END)
      [] n = "disambiguation" ->
           [k \in {"sql_query", "rag", "show_accident", "router"} |-> k]
              @@ ("end" :> END)
      [] n = "rag_feedback" ->
           [k \in {"rag", "web", "report_writer"} |-> k] @@ ("end" :> END)
      [] n = "report_writer" ->
           ("report_approval" :> END) @@ ("docx" :> "docx") @@ ("end" :> END)
      [] n = "router" ->
           [k \in {"rag", "web", "report_writer"} |-> k] @@ ("end" :> END)
\* the add_edge calls
edge(n) == CASE n \in {"rag", "web"} -> "rag_feedback" [] n = "docx" -> END
interrupt_before == {"show_accident", "rag_feedback", "report_writer", "disambiguation"}

\* graph.update_state: the values written replace those of the state
written(st, values) ==
    [f \in DOMAIN st |-> IF f \in DOMAIN values THEN values[f] ELSE st[f]]
NoValues == <<>>
\* route_hitl: the values the handler of the state's phase writes with
\* graph.update_state in the cases where it returns True, one per answer
route_hitl(st) ==
    CASE st.phase = "accident_select" ->
           IF st.rows = 0 THEN {}
           ELSE {[accident_row |-> TRUE, phase |-> "show_accident",
                  wait_for_user |-> FALSE]}
      [] st.phase = "show_accident" ->
           IF ~st.accident_row THEN {}
           ELSE {[user_intent |-> i, query_word |-> ""] :
                    i \in {"search_only", "generate_report"}}
      [] st.phase = "disambiguation" ->
           {[user_intent |-> i] : i \in {"query_sql", "search_only"}}
      [] st.phase = "rag_feedback" ->
           {[query_word |-> w] : w \in QueryWords} \cup {NoValues}
              \cup (IF st.user_intent = "generate_report"
                    THEN {[user_intent |-> "generate_report"]} ELSE {})
      [] st.phase = "report_approval" -> {NoValues}
      [] OTHER -> {}

LoopIdle ==
    /\ flow = "none"
    /\ pc = "idle"
    /\ corpus = [p \in CatalogDbs |-> 0]
    /\ judge = "never"
    /\ enable_advanced_processing = FALSE
    /\ plan = [db_list |-> <<>>, fallback |-> FALSE, fallback_db |-> ""]
    /\ final_docs = <<>>
    /\ feedback_loop_count = 0
    /\ result = [returned |-> FALSE, success |-> FALSE, docs |-> <<>>,
                 web_search_requested |-> FALSE]
    /\ initial_docs = <<>>
    /\ prev_docs = <<>>
    /\ shown_docs = <<>>
    /\ last_input = Input(TimedOut, NoReply, <<>>, NoReply)
    /\ decisions = 0
    /\ last = [action |-> "none", web |-> FALSE, kw |-> 0, requeried |-> FALSE,
               size |-> 0]
    /\ before_last = last

NoPlan == [db_list |-> <<>>, fallback |-> FALSE, fallback_db |-> ""]
NoResult == [returned |-> FALSE, success |-> FALSE, docs |-> <<>>,
             web_search_requested |-> FALSE]
NoEntry == [action |-> "none", web |-> FALSE, kw |-> 0, requeried |-> FALSE, size |-> 0]

InitRag ==
    /\ flow \in {"run", "chainlit"}
    /\ pc = "start"
    /\ corpus \in Worlds
    /\ \E c \in {<<FALSE, "never">>, <<TRUE, "never">>, <<TRUE, "criteria">>} :
          enable_advanced_processing = c[1] /\ judge = c[2]
    /\ \E s \in Sessions :
          /\ flow = "chainlit" => s.user_intent = "search_only"
          /\ state = FreshState(s.user_intent, s.enable_human_feedback, TRUE)
    /\ plan = NoPlan
    /\ final_docs = <<>>
    /\ feedback_loop_count = 0
    /\ result = NoResult
    /\ initial_docs = <<>>
    /\ prev_docs = <<>>
    /\ shown_docs = <<>>
    /\ last_input = Input(TimedOut, NoReply, <<>>, NoReply)
    /\ decisions = 0
    /\ last = NoEntry
    /\ before_last = NoEntry
    /\ OrchIdle
    /\ RetIdle
    /\ SessIdle
    /\ GraphIdle

Entry(fb, requeried, docs) ==
    [action |-> fb.action, web |-> fb.web_search_requested,
     kw |-> IF fb.keywords = <<>> THEN 0 ELSE fb.keywords[1],
     requeried |-> requeried, size |-> Len(docs)]

\* bookkeeping of one decision (history variables only)
Record(inp, fb, requeried, docs) ==
    /\ last_input' = inp
    /\ prev_docs' = final_docs
    /\ shown_docs' = IF final_docs = <<>> THEN <<>>
                     ELSE Presented(enable_advanced_processing, judge, final_docs)
    /\ decisions' = decisions + 1
    /\ before_last' = last
    /\ last' = Entry(fb, requeried, docs)

(***************************************************************************)
(* RAGAgent.run                                                            *)
(***************************************************************************)
\* faulty variant of RunLoopAsks: the loop head does not test the counter
RunLoopAsks_unbounded(st, count, docs) == should_enable_feedback(st, docs)

\* head of "while feedback_loop_count < max_feedback_loops": TRUE when the
\* loop body asks for feedback once more
RunLoopAsks(st, count, docs) ==
    count < max_feedback_loops /\ should_enable_feedback(st, docs)

\* steps 8-10 of run(): the working set becomes state["retrieved_docs"]
\* faulty variant of RunFinish: the request for web search is not stored
RunFinish_noflag(st, docs, web, processed_results) ==
    state' = [st EXCEPT !.retrieved_docs = docs,
                           !.docs_text = docs # <<>>,
                           !.sources = docs,
                           !.source_references = IF processed_results # <<>>
                                                 THEN processed_results ELSE docs]

\* processed_results: the documents process_documents was given in the last
\* loop pass, <<>> when it was not called; sources and source_references are
\* modelled by the documents their entries describe
RunFinish(st, docs, web, processed_results) ==
    state' = [st EXCEPT !.retrieved_docs = docs,
                           !.docs_text = docs # <<>>,
                           !.web_search_requested = @ \/ web,
                           !.sources = docs,
                           !.source_references = IF processed_results # <<>>
                                                 THEN processed_results ELSE docs]

\* run(st) up to its first wait: plan, sanitize, search, fallback partition,
\* cut, and either the first request for feedback or the final state
RunAfterSearch(st, raw, r) ==
    /\ plan' = sanitize_plan(raw)
    /\ final_docs' = r.docs
    /\ initial_docs' = r.docs
    /\ IF ~r.ok THEN pc' = "raised" /\ state' = st
       ELSE IF RunLoopAsks(st, 0, r.docs) THEN pc' = "await" /\ state' = st
       ELSE pc' = "done" /\ RunFinish(st, r.docs, FALSE, <<>>)

RunToFeedback(st, plans) ==
    \E raw \in plans :
    \E r \in {InitialSearch(corpus, sanitize_plan(raw), StructuredQuery)} :
       RunAfterSearch(st, raw, r)

RagStart ==
    /\ flow = "run" /\ pc = "start"
    /\ RunToFeedback(state, RawPlans)
    /\ UNCHANGED <<flow, corpus, judge, enable_advanced_processing,
                   feedback_loop_count, result, prev_docs, shown_docs,
                   last_input, decisions, last, before_last, orchVars, retVars, sessVars, graphVars>>

\* the requery of one loop pass: keyword requery over the plan's partitions,
\* partition requery over the chosen ones; [ok, docs] as search_documents
RunResearch(fb) ==
    IF fb.action = "research_keyword"
    THEN search_documents(corpus, plan.db_list,
                          Enhanced(StructuredQuery, fb.keywords), SearchTopK)
    ELSE search_documents(corpus, fb.dbs, StructuredQuery, SearchTopK)

\* faulty variant of RunMerge: the merged list is not cut
RunMerge_uncut(original_docs, research_docs) == original_docs \o research_docs

RunMerge(original_docs, research_docs) == Take(original_docs \o research_docs, MergeCap)

\* one pass through the loop body: process() and the branch on its feedback
RagFeedback ==
    /\ flow = "run" /\ pc = "await"
    /\ \E inp \in FeedbackInputs :
       \E pr \in {process(enable_advanced_processing, judge, final_docs, inp)} :
       \E reloop \in {/\ ~pr.fb.web_search_requested
                      /\ \/ pr.fb.action = "research_keyword" /\ pr.fb.keywords # <<>>
                         \/ pr.fb.action = "research_db" /\ pr.fb.dbs # <<>>} :
       \E research \in {IF reloop THEN RunResearch(pr.fb) ELSE [ok |-> TRUE, docs |-> <<>>]} :
       \E docs \in {IF reloop THEN RunMerge(pr.fb.original_docs, research.docs)
                    ELSE pr.docs} :
       \E count \in {IF reloop THEN feedback_loop_count + 1 ELSE feedback_loop_count} :
          /\ Record(inp, pr.fb, reloop, docs)
          /\ final_docs' = docs
          /\ feedback_loop_count' = count
          /\ IF ~research.ok THEN pc' = "raised" /\ state' = state
             ELSE IF reloop /\ RunLoopAsks(state, count, docs)
             THEN pc' = "await" /\ state' = state
             ELSE pc' = "done" /\ RunFinish(state, docs, pr.fb.web_search_requested,
                                            IF enable_advanced_processing
                                            THEN final_docs ELSE <<>>)
    /\ UNCHANGED <<flow, corpus, judge, enable_advanced_processing, plan, result,
                   initial_docs, orchVars, retVars, sessVars, graphVars>>

(***************************************************************************)
(* perform_rag_search_with_hitl                                            *)
(***************************************************************************)
\* rag_agent.search_only(query, state): the partition router's plan, the
\* search of its partitions, the fallback partition and the cut
search_only(world, p, q) == InitialSearch(world, p, q)

Return(success, docs, web) ==
    result' = [returned |-> TRUE, success |-> success, docs |-> docs,
               web_search_requested |-> web]

HitlStart ==
    /\ flow = "chainlit" /\ pc = "start"
    /\ \E raw \in RawPlans, raises \in BOOLEAN :
       \E r \in {search_only(corpus, sanitize_plan(raw), UserQuery)} :
          /\ plan' = sanitize_plan(raw)
          /\ IF raises \/ ~r.ok \/ r.docs = <<>>
             THEN /\ pc' = "done"
                  /\ Return(FALSE, <<>>, FALSE)
                  /\ UNCHANGED <<final_docs, initial_docs>>
             ELSE /\ pc' = "await"
                  /\ final_docs' = r.docs
                  /\ initial_docs' = r.docs
                  /\ UNCHANGED result
    /\ UNCHANGED <<flow, corpus, judge, enable_advanced_processing, state,
                   feedback_loop_count, prev_docs, shown_docs, last_input,
                   decisions, last, before_last, orchVars, retVars, sessVars, graphVars>>

HitlKeywordMerge(original_docs, new_docs) == Take(original_docs \o new_docs, MergeCap)
HitlDbResult(new_docs) == Take(new_docs, InitialCap)

HitlFeedback ==
    /\ flow = "chainlit" /\ pc = "await"
    /\ \E inp \in FeedbackInputs :
       \E pr \in {process(enable_advanced_processing, judge, final_docs, inp)} :
       \E web \in {pr.fb.web_search_requested} :
       \E kw \in {~web /\ pr.fb.action = "research_keyword" /\ pr.fb.keywords # <<>>} :
       \E dbq \in {~web /\ pr.fb.action = "research_db"} :
       \E searches \in {kw \/ (dbq /\ pr.fb.dbs # <<>>)} :
       \E raises \in (IF searches THEN BOOLEAN ELSE {FALSE}) :
       \E new_docs \in {IF ~searches \/ raises THEN [ok |-> ~raises, docs |-> <<>>]
                        ELSE IF kw
                        THEN search_only(corpus, plan, Enhanced(UserQuery, pr.fb.keywords))
                        ELSE search_documents(corpus, pr.fb.dbs, StructuredQuery,
                                              SearchTopK)} :
       \E docs \in {IF kw THEN (IF ~new_docs.ok THEN pr.fb.original_docs
                                ELSE HitlKeywordMerge(pr.fb.original_docs, new_docs.docs))
                    ELSE IF searches /\ new_docs.ok THEN HitlDbResult(new_docs.docs)
                    ELSE pr.docs} :
       \E break \in {\/ web
                     \/ kw /\ ~new_docs.ok
                     \/ ~kw /\ ~dbq /\ pr.fb.action \in {"accept_all", "select_partial"}} :
       \E count \in {IF break THEN feedback_loop_count ELSE feedback_loop_count + 1} :
          /\ Record(inp, pr.fb, searches /\ new_docs.ok, docs)
          /\ final_docs' = docs
          /\ feedback_loop_count' = count
          /\ IF ~break /\ count < max_feedback_loops
             THEN pc' = "await" /\ UNCHANGED result
             ELSE pc' = "done" /\ Return(TRUE, docs, web)
    /\ UNCHANGED <<flow, corpus, judge, enable_advanced_processing, state, plan,
                   initial_docs, orchVars, retVars, sessVars, graphVars>>

(***************************************************************************)
(* One retriever call on its own: retrieve() of one partition for every    *)
(* top_k, and one routing round (plan, partitions, fallback partition).    *)
(***************************************************************************)
TopKs == {1, 2, SearchTopK}
Queries == {[base |-> b, kw |-> k] : b \in {"structured", "user"}, k \in 0..MaxKeyword}
\* what the dense and the lexical service return: both, or only one of them;
\* "dense_raises": the embedding request of the dense step raises
ServiceModes == {"both", "dense_only", "sparse_only", "neither", "dense_raises"}
\* corpora in which one partition's store cannot be read
UnreadableWorlds == {World(DocsPerDb, Unreadable, DocsPerDb), World(0, 2, Unreadable)}

OneInputs == {[kind |-> "one", p |-> p, n |-> n, q |-> q, top_k |-> k, mode |-> m] :
                 p \in {"05_crane", GeneralDb}, n \in {0, 2, DocsPerDb},
                 q \in Queries, k \in TopKs, m \in ServiceModes}
RoundInputs == {[kind |-> "round", world |-> w, raw |-> raw, q |-> q] :
                   w \in Worlds \cup UnreadableWorlds, raw \in RawPlans, q \in Queries}

\* one retriever object asked twice: tagged is the set of documents whose
\* stored text carries markup when the object is built
TwiceInputs == {[kind |-> "twice", p |-> "05_crane", n |-> n, q |-> q,
                 top_k |-> k, tagged |-> t] :
                   n \in {2, DocsPerDb}, q \in Queries, k \in TopKs,
                   t \in {{}, {1}, {2}}}

\* BM25Retriever.from_documents(self.all_docs) over the texts as they are
\* stored now: the terms of a text that carries markup are glued to its tags
\* and match no query term, so it ranks after the plain texts
bm25_stored(p, n, q, k, tagged) ==
    LET order == Ranked(p, n, QueryShift(q) + 1)
        plain(d) == d.id \notin tagged
        marked(d) == d.id \in tagged
    IN  Take(SelectSeq(order, plain) \o SelectSeq(order, marked), k)

\* the cross-encoder reads the text it is handed: a text that carries markup
\* scores below every plain text
CrossScoreStored(q, tagged) ==
    [d \in AllDocs |-> IF d.id \in tagged THEN 0 ELSE CrossScore(q)[d] + 1]

\* retrieve(query) of a retriever object whose stored texts are as tagged says
retrieve_stored(p, n, q, top_k, tagged) ==
    retrieve(similarity_search_with_score(p, n, q, top_k),
             bm25_stored(p, n, q, top_k * SparseFactor, tagged),
             CrossScoreStored(q, tagged), top_k)

\* d.page_content = _clean_text(d.page_content) on the returned documents:
\* those the dense search returned are the docstore's own objects, so their
\* stored text loses its markup
clean_stored(p, n, q, top_k, tagged) ==
    LET dense == similarity_search_with_score(p, n, q, top_k)
        returned == Range(retrieve_stored(p, n, q, top_k, tagged).docs)
    IN  tagged \ {d.id : d \in returned \cap {dense[j].doc : j \in 1..Len(dense)}}

\* the weights alpha in [0, 1], in hundredths
Alphas == {0, 30, AlphaPct, 100}
\* dense scores, in hundredths: a similarity may be negative
DenseScores == (0 - MaxDense)..MaxDense
\* two dense scores fused at the same sparse rank sr of N sparse results;
\* sr = N is the rank given to a document the lexical search did not return
FuseInputs == {[kind |-> "fuse", a |-> al, ds1 |-> d1, ds2 |-> d2, sr |-> rk, N |-> ns] :
                  al \in Alphas, d1 \in DenseScores, d2 \in DenseScores,
                  rk \in 0..MaxSparse, ns \in 1..MaxSparse}

InitRetrieve ==
    /\ r_pc = "input"
    /\ r_in \in OneInputs \cup RoundInputs \cup TwiceInputs
                \cup {f \in FuseInputs : f.sr <= f.N}
    /\ r_out = [ok |-> TRUE, docs |-> <<>>]
    /\ LoopIdle
    /\ state = FreshState("generate_report", "unset", TRUE)
    /\ OrchIdle
    /\ SessIdle
    /\ GraphIdle

RetrieveOne ==
    /\ r_pc = "input" /\ r_in.kind = "one"
    /\ \E dense \in {IF r_in.mode \in {"both", "dense_only"}
                      THEN similarity_search_with_score(r_in.p, r_in.n, r_in.q, r_in.top_k)
                      ELSE <<>>} :
       \E sparse \in {IF r_in.mode \in {"both", "sparse_only"}
                       THEN get_relevant_documents(r_in.p, r_in.n, r_in.q,
                                                   r_in.top_k * SparseFactor)
                       ELSE <<>>} :
       \E r \in {IF r_in.mode = "dense_raises" THEN DenseStepRaised
                  ELSE retrieve(dense, sparse, CrossScore(r_in.q), r_in.top_k)} :
          \* dense, sparse, hybrid: the locals of retrieve() when it returned
          r_out' = [ok |-> r.ok, docs |-> r.docs, dense |-> dense, sparse |-> sparse,
                    hybrid |-> IF r.ok THEN hybrid_scored(dense, sparse) ELSE <<>>]
    /\ r_pc' = "one"
    /\ UNCHANGED <<r_in, loopVars, state, orchVars, sessVars, graphVars>>

SearchRound ==
    /\ r_pc = "input" /\ r_in.kind = "round"
    /\ r_out' = InitialSearch(r_in.world, sanitize_plan(r_in.raw), r_in.q)
    /\ r_pc' = "round"
    /\ UNCHANGED <<r_in, loopVars, state, orchVars, sessVars, graphVars>>

\* the first retrieve(query) of the retriever object
RetrieveFirst ==
    /\ r_pc = "input" /\ r_in.kind = "twice"
    /\ \E r \in {retrieve_stored(r_in.p, r_in.n, r_in.q, r_in.top_k, r_in.tagged)} :
          r_out' = [ok |-> r.ok, docs |-> r.docs, first |-> r.docs,
                    tagged |-> clean_stored(r_in.p, r_in.n, r_in.q, r_in.top_k,
                                            r_in.tagged)]
    /\ r_pc' = "first"
    /\ UNCHANGED <<r_in, loopVars, state, orchVars, sessVars, graphVars>>

\* the second retrieve(query) of the same object, same query
RetrieveSecond ==
    /\ r_pc = "first"
    /\ \E r \in {retrieve_stored(r_in.p, r_in.n, r_in.q, r_in.top_k, r_out.tagged)} :
          r_out' = [ok |-> r.ok, docs |-> r.docs, first |-> r_out.first,
                    tagged |-> clean_stored(r_in.p, r_in.n, r_in.q, r_in.top_k,
                                            r_out.tagged)]
    /\ r_pc' = "second"
    /\ UNCHANGED <<r_in, loopVars, state, orchVars, sessVars, graphVars>>

\* the combined scores _hybrid_merge gives two dense results
FuseTwo ==
    /\ r_pc = "input" /\ r_in.kind = "fuse"
    /\ r_out' = [ok |-> TRUE, docs |-> <<>>,
                 s1 |-> FusionScoreAt(r_in.a, r_in.ds1, r_in.sr, r_in.N),
                 s2 |-> FusionScoreAt(r_in.a, r_in.ds2, r_in.sr, r_in.N)]
    /\ r_pc' = "fused"
    /\ UNCHANGED <<r_in, loopVars, state, orchVars, sessVars, graphVars>>

NextRetrieve == RetrieveOne \/ SearchRound \/ RetrieveFirst \/ RetrieveSecond \/ FuseTwo
SpecRetrieve == InitRetrieve /\ [][NextRetrieve]_vars


(***************************************************************************)
(* OrchestratorAgent and the single-node workflow around it                *)
(***************************************************************************)
\* AGENT_REGISTRY as last assigned
AgentNames == {"RAGAgent", "WebSearchAgent", "ReportWriterAgent"}
\* names of the tools offered to the reasoning call
ToolNames == AgentNames \cup {"END"}
\* a name the reasoning call may answer although no tool has it
StrayName == "CSVSQLAgent"

\* what call_llm_with_tools gives back: None after an exception ("failed"),
\* a message without tool calls, a tool call whose arguments json.loads
\* rejects, or a tool call with well-formed arguments
FailedResponses ==
    {[kind |-> "failed", name |-> ""], [kind |-> "no_tool", name |-> ""]}
    \cup {[kind |-> "bad_args", name |-> n] : n \in {"END", StrayName}}
Responses ==
    FailedResponses \cup {[kind |-> "tool", name |-> n] : n \in ToolNames \cup {StrayName}}

\* faulty variant of fallback_decision: composition is tested before web search
fallback_decision_report_first(st) ==
    IF st.retrieved_docs = <<>> THEN "RAGAgent"
    ELSE IF st.user_intent # "search_only" /\ st.report_text = "" THEN "ReportWriterAgent"
    ELSE IF st.user_intent # "search_only" /\ st.docx_path \in {"", "None"}
    THEN "ReportWriterAgent"
    ELSE IF st.web_search_requested /\ ~st.web_search_completed THEN "WebSearchAgent"
    ELSE "END"

fallback_decision(st) ==
    IF st.user_intent = "search_only"
    THEN IF st.retrieved_docs = <<>> THEN "RAGAgent"
         ELSE IF st.web_search_requested /\ ~st.web_search_completed THEN "WebSearchAgent"
         ELSE "END"
    ELSE IF st.retrieved_docs = <<>> THEN "RAGAgent"
    ELSE IF Len(st.retrieved_docs) < 3 /\ ~st.web_search_completed THEN "WebSearchAgent"
    ELSE IF st.web_search_requested /\ ~st.web_search_completed THEN "WebSearchAgent"
    ELSE IF st.report_text = "" THEN "ReportWriterAgent"
    ELSE IF st.docx_path \in {"", "None"} THEN "ReportWriterAgent"
    ELSE "END"

\* the try block of decide_next_agent: raised when json.loads rejects the
\* arguments, else the value it returns
DecideTry(st, resp) ==
    [raised |-> resp.kind = "bad_args",
     agent |-> IF resp.kind \in {"tool", "bad_args"} THEN resp.name
               ELSE fallback_decision(st)]

\* faulty variant of decide_next_agent: no handler around the try block
decide_next_agent_unhandled(st, resp) == DecideTry(st, resp).agent

decide_next_agent(st, resp) ==
    IF DecideTry(st, resp).raised THEN fallback_decision(st)
    ELSE DecideTry(st, resp).agent

get_agent(agent_name) == IF agent_name \in AgentNames THEN agent_name ELSE "None"

\* faulty variant of should_continue: is_complete does not end the loop
should_continue_unending(st) == IF st.wait_for_user THEN "end" ELSE "continue"

\* workflow.should_continue after a run of the node
should_continue(st) ==
    IF st.wait_for_user THEN "end"
    ELSE IF st.is_complete THEN "end"
    ELSE "continue"

\* runs of the orchestrator node explored in one workflow
MaxNodeRuns == 2

\* the corpus and the plans of the sessions the workflow is explored on
OrchWorld == World(0, 2, 0)
OrchPlans == {RawPlan(<<"05_crane">>, TRUE, GeneralDb)}

PartitionDocs(p, n) == [i \in 1..n |-> Doc(p, i)]

\* the states graph_app.invoke is called with: main.py's fresh state, and
\* continue_to_report's state after the chat's own retrieval
EntryStates ==
    {FreshState(intent, "unset", q) :
        intent \in {"generate_report", "search_only"}, q \in BOOLEAN}
    \cup {[FreshState("generate_report", "unset", TRUE) EXCEPT
              !.retrieved_docs = PartitionDocs(GeneralDb, n),
              !.web_search_requested = w] : n \in {2, 4}, w \in BOOLEAN}

InitOrch ==
    /\ o_pc = "run"
    /\ o_resp = NoResponse
    /\ o_next = ""
    /\ o_runs = 0
    /\ state \in EntryStates
    /\ o_at = state
    /\ flow = "none"
    /\ pc = "idle"
    /\ corpus = OrchWorld
    /\ judge = "never"
    /\ enable_advanced_processing = FALSE
    /\ plan = NoPlan
    /\ final_docs = <<>>
    /\ feedback_loop_count = 0
    /\ result = NoResult
    /\ initial_docs = <<>>
    /\ prev_docs = <<>>
    /\ shown_docs = <<>>
    /\ last_input = Input(TimedOut, NoReply, <<>>, NoReply)
    /\ decisions = 0
    /\ last = NoEntry
    /\ before_last = NoEntry
    /\ RetIdle
    /\ SessIdle
    /\ GraphIdle

\* the locals of an earlier RAGAgent.run are gone when the node runs again
LoopLocalsGone ==
    /\ final_docs' = <<>>
    /\ feedback_loop_count' = 0
    /\ initial_docs' = <<>>
    /\ prev_docs' = <<>>
    /\ shown_docs' = <<>>
    /\ last_input' = Input(TimedOut, NoReply, <<>>, NoReply)
    /\ decisions' = 0
    /\ last' = NoEntry
    /\ before_last' = NoEntry
    /\ UNCHANGED <<corpus, judge, enable_advanced_processing, result>>

\* the node can run: the workflow is looping and no agent call is open
NodeReady == o_pc = "run" /\ pc \in {"idle", "done"} /\ o_runs < MaxNodeRuns

\* bookkeeping of one decide_next_agent call (history variables only)
Decided(resp) ==
    /\ o_resp' = resp
    /\ o_next' = decide_next_agent(state, resp)
    /\ o_at' = state
    /\ o_runs' = o_runs + 1

AfterNode == o_pc' = IF should_continue(state') = "end" THEN "stopped" ELSE "run"

\* run(): the decision is END
OrchEnd ==
    /\ NodeReady
    /\ \E resp \in Responses :
          /\ decide_next_agent(state, resp) = "END"
          /\ Decided(resp)
    /\ state' = [state EXCEPT !.is_complete = TRUE]
    /\ AfterNode
    /\ flow' = "none" /\ pc' = "idle" /\ plan' = NoPlan
    /\ LoopLocalsGone
    /\ UNCHANGED <<retVars, sessVars, graphVars>>

\* run(): the registry has no agent of the decided name
OrchNoAgent ==
    /\ NodeReady
    /\ \E resp \in Responses :
          /\ decide_next_agent(state, resp) # "END"
          /\ get_agent(decide_next_agent(state, resp)) = "None"
          /\ Decided(resp)
    /\ state' = [state EXCEPT !.is_complete = TRUE]
    /\ AfterNode
    /\ flow' = "none" /\ pc' = "idle" /\ plan' = NoPlan
    /\ LoopLocalsGone
    /\ UNCHANGED <<retVars, sessVars, graphVars>>

\* run(): RAGAgent is dispatched; its run() goes on in RagFeedback when it
\* asks for feedback
OrchRag ==
    /\ NodeReady
    /\ \E resp \in Responses :
          /\ get_agent(decide_next_agent(state, resp)) = "RAGAgent"
          /\ Decided(resp)
    /\ flow' = "run"
    /\ RunToFeedback([state EXCEPT !.next_agent = "RAGAgent"], OrchPlans)
    /\ feedback_loop_count' = 0
    /\ prev_docs' = <<>>
    /\ shown_docs' = <<>>
    /\ last_input' = Input(TimedOut, NoReply, <<>>, NoReply)
    /\ decisions' = 0
    /\ last' = NoEntry
    /\ before_last' = NoEntry
    /\ o_pc' = "run"
    /\ UNCHANGED <<corpus, judge, enable_advanced_processing, result, retVars, sessVars, graphVars>>

(***************************************************************************)
(* WebSearch, WebSearchAgent and ReportWriterAgent                         *)
(***************************************************************************)
\* documents one successful web search returns when it finds any
DEFAULT_TOP_K == 5
WebDocs(n) == [i \in 1..n |-> [db |-> "web", id |-> i]]

\* the search service: no API key, a failing request, or n results
WebOutcomes ==
    {[kind |-> "no_key", n |-> 0], [kind |-> "error", n |-> 0],
     [kind |-> "hits", n |-> 0], [kind |-> "hits", n |-> DEFAULT_TOP_K]}

\* WebSearch.run: [raised, st]
WebSearch_run(st, out) ==
    IF out.kind = "no_key" \/ ~st.user_query
    THEN [raised |-> TRUE, st |-> st]
    ELSE IF out.kind = "error"
    THEN [raised |-> FALSE, st |-> st]
    ELSE [raised |-> FALSE,
          st |-> [st EXCEPT !.retrieved_docs = @ \o WebDocs(out.n),
                            !.web_docs = WebDocs(out.n),
                            !.web_search_count = @ + 1]]

WebSearchAgent_run(st, out) ==
    IF ~st.user_query
    THEN [st EXCEPT !.web_search_completed = FALSE]
    ELSE IF WebSearch_run(st, out).raised
    THEN [st EXCEPT !.web_search_completed = FALSE]
    ELSE IF WebSearch_run(st, out).st.web_docs = <<>>
    THEN [WebSearch_run(st, out).st EXCEPT !.web_search_completed = TRUE]
    ELSE [WebSearch_run(st, out).st EXCEPT
             !.docs_text = (WebSearch_run(st, out).st.retrieved_docs # <<>>),
             !.web_search_completed = TRUE]

\* what the action-selection call of ReportWriterAgent answers; "failed" is
\* an exception inside _decide_action
ReportActions == {"final_report", "web_search", "create_docx", "noop", "other", "failed"}

fallback_action(st) ==
    IF st.report_text = "" THEN "final_report"
    ELSE IF st.docx_path \in {"", "None"} THEN "create_docx"
    ELSE "noop"

decide_action(st, llm) == IF llm = "failed" THEN fallback_action(st) ELSE llm

ensure_docs_text(st) ==
    IF st.docs_text THEN st ELSE [st EXCEPT !.docs_text = (st.retrieved_docs # <<>>)]

generate_final_report(st, ok) ==
    IF ~ensure_docs_text(st).docs_text
    THEN [ensure_docs_text(st) EXCEPT !.summary_cause = "no_docs", !.report_text = "no_docs"]
    ELSE IF ok
    THEN [ensure_docs_text(st) EXCEPT !.summary_cause = "summary", !.report_text = "report"]
    ELSE [ensure_docs_text(st) EXCEPT !.summary_cause = "failed", !.report_text = "failed"]

run_web_search(st, out) ==
    IF WebSearch_run(st, out).raised
    THEN [st EXCEPT !.web_search_completed = TRUE]
    ELSE [WebSearch_run(st, out).st EXCEPT
             !.docs_text = IF WebSearch_run(st, out).st.retrieved_docs # <<>> THEN TRUE ELSE @,
             !.web_search_completed = TRUE,
             !.web_search_count = @ + 1]

\* faulty variant of create_docx_file: the report content is not required
create_docx_file_unguarded(st, ok) ==
    IF ~st.user_query THEN st
    ELSE IF ok THEN [st EXCEPT !.docx_path = "path"]
    ELSE [st EXCEPT !.docx_path = "None"]

\* summary_cause stands for summary_cause and summary_action_plan, which
\* _generate_final_report writes together
create_docx_file(st, ok) ==
    IF ~st.user_query \/ st.summary_cause = "" THEN st
    ELSE IF ok THEN [st EXCEPT !.docx_path = "path"]
    ELSE [st EXCEPT !.docx_path = "None"]

ReportWriterAgent_run(st, llm, out, ok) ==
    IF decide_action(st, llm) = "final_report" THEN generate_final_report(st, ok)
    ELSE IF decide_action(st, llm) = "web_search" THEN run_web_search(st, out)
    ELSE IF decide_action(st, llm) = "create_docx" THEN create_docx_file(st, ok)
    ELSE st

\* what one run of ReportWriterAgent meets: the answer of its action
\* selection, and the outcome of the one service its handler then calls
ReportCalls ==
    {[llm |-> l, out |-> [kind |-> "error", n |-> 0], ok |-> ok] :
        l \in {"final_report", "create_docx", "failed"}, ok \in BOOLEAN}
    \cup {[llm |-> "web_search", out |-> out, ok |-> TRUE] : out \in WebOutcomes}
    \cup {[llm |-> l, out |-> [kind |-> "error", n |-> 0], ok |-> TRUE] :
             l \in {"noop", "other"}}

\* run(): WebSearchAgent is dispatched
OrchWeb ==
    /\ NodeReady
    /\ \E resp \in Responses :
          /\ get_agent(decide_next_agent(state, resp)) = "WebSearchAgent"
          /\ Decided(resp)
    /\ \E out \in WebOutcomes :
          state' = WebSearchAgent_run([state EXCEPT !.next_agent = "WebSearchAgent"], out)
    /\ AfterNode
    /\ flow' = "none" /\ pc' = "idle" /\ plan' = NoPlan
    /\ LoopLocalsGone
    /\ UNCHANGED <<retVars, sessVars, graphVars>>

\* run(): ReportWriterAgent is dispatched
OrchReport ==
    /\ NodeReady
    /\ \E resp \in Responses :
          /\ get_agent(decide_next_agent(state, resp)) = "ReportWriterAgent"
          /\ Decided(resp)
    /\ \E c \in ReportCalls :
          state' = ReportWriterAgent_run([state EXCEPT !.next_agent = "ReportWriterAgent"],
                                         c.llm, c.out, c.ok)
    /\ AfterNode
    /\ flow' = "none" /\ pc' = "idle" /\ plan' = NoPlan
    /\ LoopLocalsGone
    /\ UNCHANGED <<retVars, sessVars, graphVars>>

NextOrch == OrchEnd \/ OrchNoAgent \/ OrchRag \/ RagFeedback \/ OrchWeb \/ OrchReport
SpecOrch == InitOrch /\ [][NextOrch]_vars

(***************************************************************************)
(* The fallback rule table on its own, over every combination of the state *)
(* keys it reads.                                                          *)
(***************************************************************************)
RuleStates ==
    {[FreshState(intent, "unset", TRUE) EXCEPT
         !.retrieved_docs = PartitionDocs(GeneralDb, n),
         !.web_search_requested = req,
         !.web_search_completed = done,
         !.report_text = rep,
         !.docx_path = docx] :
        intent \in {"generate_report", "search_only", "csv_info"},
        n \in {0, 2, 4}, req \in BOOLEAN, done \in BOOLEAN,
        rep \in {"", "report"}, docx \in {"", "None", "path"}}

InitFallback ==
    /\ o_pc = "rule"
    /\ o_resp = NoResponse
    /\ o_next = ""
    /\ o_runs = 0
    /\ o_at \in RuleStates
    /\ state = o_at
    /\ LoopIdle
    /\ RetIdle
    /\ SessIdle
    /\ GraphIdle

\* decide_next_agent when the reasoning call fails: the rule table decides
FallbackDecide ==
    /\ o_pc = "rule"
    /\ \E resp \in FailedResponses :
          /\ o_resp' = resp
          /\ o_next' = decide_next_agent(state, resp)
    /\ o_pc' = "ruled"
    /\ UNCHANGED <<o_at, o_runs, state, loopVars, retVars, sessVars, graphVars>>

NextFallback == FallbackDecide
SpecFallback == InitFallback /\ [][NextFallback]_vars

(***************************************************************************)
(* The workflow when every reasoning call of the orchestrator fails: the   *)
(* rule table decides each step, and the graph runs the node again for as  *)
(* long as should_continue says "continue".  The count of runs is a        *)
(* history variable here and stops counting at MaxNodeRuns.  The corpus    *)
(* and the plan stay the same, so every first search of RAGAgent.run       *)
(* returns the same: r_in and r_out hold that search round and its result. *)
(***************************************************************************)
\* corpora of the sessions: one where the plan's partitions hold documents,
\* one where no partition holds any
LoopWorlds == {OrchWorld, World(0, 0, 0)}

InitLoop ==
    /\ o_pc = "run"
    /\ o_resp = NoResponse
    /\ o_next = ""
    /\ o_runs = 0
    /\ state \in EntryStates
    /\ o_at = state
    /\ flow = "none"
    /\ pc = "idle"
    /\ corpus \in LoopWorlds
    /\ judge = "never"
    /\ enable_advanced_processing = FALSE
    /\ plan = NoPlan
    /\ final_docs = <<>>
    /\ feedback_loop_count = 0
    /\ result = NoResult
    /\ initial_docs = <<>>
    /\ prev_docs = <<>>
    /\ shown_docs = <<>>
    /\ last_input = Input(TimedOut, NoReply, <<>>, NoReply)
    /\ decisions = 0
    /\ last = NoEntry
    /\ before_last = NoEntry
    /\ r_pc = "round"
    /\ r_in \in {[kind |-> "round", world |-> corpus, raw |-> raw, q |-> StructuredQuery] :
                    raw \in OrchPlans}
    /\ r_out = InitialSearch(r_in.world, sanitize_plan(r_in.raw), r_in.q)
    /\ SessIdle
    /\ GraphIdle

\* the node can run: the graph is looping and no agent call is open
\* ("continued": graph_app.invoke has been called again and runs the entry
\* node whatever the flags of the state say)
LoopReady == o_pc \in {"run", "continued"} /\ pc \in {"idle", "done"}

\* bookkeeping of one decide_next_agent call (history variables only)
RuleDecided(resp) ==
    /\ o_resp' = resp
    /\ o_next' = decide_next_agent(state, resp)
    /\ o_at' = state
    /\ o_runs' = IF o_runs < MaxNodeRuns THEN o_runs + 1 ELSE o_runs

\* the action selection of ReportWriterAgent fails as well: fallback_action
\* chooses, and the service its handler calls succeeds or fails
RuleReportCalls == {c \in ReportCalls : c.llm = "failed"}

\* run(): the rule table says END
RuleEnd ==
    /\ LoopReady
    /\ \E resp \in FailedResponses :
          /\ decide_next_agent(state, resp) = "END"
          /\ RuleDecided(resp)
    /\ state' = [state EXCEPT !.is_complete = TRUE]
    /\ AfterNode
    /\ flow' = "none" /\ pc' = "idle" /\ plan' = NoPlan
    /\ LoopLocalsGone
    /\ UNCHANGED <<retVars, sessVars, graphVars>>

\* run(): the rule table says RAGAgent
RuleRag ==
    /\ LoopReady
    /\ \E resp \in FailedResponses :
          /\ get_agent(decide_next_agent(state, resp)) = "RAGAgent"
          /\ RuleDecided(resp)
    /\ flow' = "run"
    /\ r_in.world = corpus /\ r_in.q = StructuredQuery
    /\ RunAfterSearch([state EXCEPT !.next_agent = "RAGAgent"], r_in.raw, r_out)
    /\ feedback_loop_count' = 0
    /\ prev_docs' = <<>>
    /\ shown_docs' = <<>>
    /\ last_input' = Input(TimedOut, NoReply, <<>>, NoReply)
    /\ decisions' = 0
    /\ last' = NoEntry
    /\ before_last' = NoEntry
    /\ o_pc' = "run"
    /\ UNCHANGED <<corpus, judge, enable_advanced_processing, result, retVars, sessVars, graphVars>>

\* run(): the rule table says WebSearchAgent
RuleWeb ==
    /\ LoopReady
    /\ \E resp \in FailedResponses :
          /\ get_agent(decide_next_agent(state, resp)) = "WebSearchAgent"
          /\ RuleDecided(resp)
    /\ \E out \in WebOutcomes :
          state' = WebSearchAgent_run([state EXCEPT !.next_agent = "WebSearchAgent"], out)
    /\ AfterNode
    /\ flow' = "none" /\ pc' = "idle" /\ plan' = NoPlan
    /\ LoopLocalsGone
    /\ UNCHANGED <<retVars, sessVars, graphVars>>

\* run(): the rule table says ReportWriterAgent
RuleReport ==
    /\ LoopReady
    /\ \E resp \in FailedResponses :
          /\ get_agent(decide_next_agent(state, resp)) = "ReportWriterAgent"
          /\ RuleDecided(resp)
    /\ \E c \in RuleReportCalls :
          state' = ReportWriterAgent_run([state EXCEPT !.next_agent = "ReportWriterAgent"],
                                         c.llm, c.out, c.ok)
    /\ AfterNode
    /\ flow' = "none" /\ pc' = "idle" /\ plan' = NoPlan
    /\ LoopLocalsGone
    /\ UNCHANGED <<retVars, sessVars, graphVars>>

\* process_user_input after a search_only run: the user asks for the report
\* and continue_to_report invokes the workflow on the run's final state
ContinueToReport ==
    /\ o_pc = "stopped" /\ pc \in {"idle", "done"}
    /\ state.user_intent = "search_only"
    /\ state' = [state EXCEPT !.user_intent = "generate_report"]
    /\ o_pc' = "continued"
    /\ UNCHANGED <<o_resp, o_next, o_at, o_runs, loopVars, retVars, sessVars, graphVars>>

NextLoop == RuleEnd \/ RuleRag \/ RagFeedback \/ RuleWeb \/ RuleReport \/ ContinueToReport
\* the graph runs the next node whenever there is one to run, and a request
\* for feedback ends with an answer or with its timeout
SpecLoop == InitLoop /\ [][NextLoop]_vars /\ WF_vars(NextLoop)

(***************************************************************************)
(* The message handler of the graph front end: main of app_chainlit3.      *)
(* Each message of the session starts one run of main; every run drives    *)
(* the one compiled graph of the session under thread_id = session id.     *)
(* A run gives up control at each await; main takes no lock and reads no   *)
(* flag before it starts.                                                  *)
(***************************************************************************)
\* nesting of graph.stream loops in main
MaxStreamLevel == 3
Contents == {"", "m1", "m2"}
\* what the user answers at the rag_feedback point; "none": no answer in time
HitlAnswers == {"none", "accept", "retry", "retry_nokw", "web", "report"}

InitSession ==
    /\ s_pc = [f \in Flows |-> "idle"]
    /\ s_ckpt = NoCheckpoint
    /\ s_event = [f \in Flows |-> NoCheckpoint]
    /\ s_level = [f \in Flows |-> 0]
    /\ s_writes = <<>>
    /\ LoopIdle
    /\ state = FreshState("generate_report", "unset", TRUE)
    /\ OrchIdle
    /\ RetIdle
    /\ GraphIdle

\* handle_rag_feedback: the values it writes with graph.update_state, from
\* the event it was handed; no entry when it writes nothing
feedback_update(event, ans) ==
    IF ans = "retry" THEN [user_query |-> event.user_query \o <<"kw">>]
    ELSE IF ans = "web" THEN [web_search_requested |-> TRUE]
    ELSE IF ans = "report" THEN [user_intent |-> "generate_report"]
    ELSE <<>>

\* handle_rag_feedback: whether main resumes the graph afterwards
feedback_continues(event, ans) ==
    /\ ans \notin {"none", "retry_nokw"}
    /\ (ans # "accept" \/ event.user_intent = "generate_report")

\* graph.update_state(config, values)
update_state(ckpt, values) ==
    [k \in DOMAIN ckpt |-> IF k \in DOMAIN values THEN values[k] ELSE ckpt[k]]

\* graph.stream(input, config) up to the event that stops the loop of main:
\* the graph runs from the checkpoint and stops at a HITL point or at END
stream(ckpt, input, waits) ==
    update_state(update_state(ckpt, input),
                 [wait_for_user |-> waits, is_complete |-> ~waits])

\* main for one message, up to its first await that the user ends: an empty
\* message is answered and dropped, any other one is streamed into the graph
SessMessage(f) ==
    /\ s_pc[f] = "idle"
    /\ \E content \in Contents, waits \in BOOLEAN :
          IF content = ""
          THEN /\ s_pc' = [s_pc EXCEPT ![f] = "returned"]
               /\ UNCHANGED <<s_ckpt, s_event, s_level, s_writes>>
          ELSE \E ckpt \in {stream(s_ckpt, [user_query |-> <<content>>], waits)} :
               /\ s_ckpt' = ckpt
               /\ s_event' = [s_event EXCEPT ![f] = ckpt]
               /\ s_level' = [s_level EXCEPT ![f] = 1]
               /\ s_writes' = Append(s_writes, f)
               /\ s_pc' = [s_pc EXCEPT ![f] = IF waits THEN "hitl" ELSE "returned"]
    /\ UNCHANGED <<loopVars, state, orchVars, retVars, graphVars>>

\* route_hitl returns with the user's answer: the handler writes the
\* checkpoint, and main resumes the graph with graph.stream(None, config)
\* or returns
SessReply(f) ==
    /\ s_pc[f] = "hitl"
    /\ \E ans \in HitlAnswers, waits \in BOOLEAN :
       \E resumes \in {feedback_continues(s_event[f], ans)
                          /\ s_level[f] < MaxStreamLevel} :
       \E updated \in {update_state(s_ckpt, feedback_update(s_event[f], ans))} :
       \E ckpt \in {IF resumes THEN stream(updated, <<>>, waits) ELSE updated} :
          /\ s_ckpt' = ckpt
          /\ s_writes' = IF ckpt # s_ckpt \/ resumes THEN Append(s_writes, f)
                         ELSE s_writes
          /\ IF resumes
             THEN /\ s_event' = [s_event EXCEPT ![f] = ckpt]
                  /\ s_level' = [s_level EXCEPT ![f] = @ + 1]
                  /\ s_pc' = [s_pc EXCEPT ![f] = IF waits THEN "hitl" ELSE "returned"]
             ELSE /\ s_pc' = [s_pc EXCEPT ![f] = "returned"]
                  /\ UNCHANGED <<s_event, s_level>>
    /\ UNCHANGED <<loopVars, state, orchVars, retVars, graphVars>>

NextSession == \E f \in Flows : SessMessage(f) \/ SessReply(f)
SpecSession == InitSession /\ [][NextSession]_vars

(***************************************************************************)
(* The graph of build_complete_graph, run by main of app_chainlit3.py      *)
(***************************************************************************)
InitGraph ==
    /\ g_node = "intent"
    /\ g_state \in {[GraphState0 EXCEPT !.query_word = w] : w \in QueryWords}
    /\ g_route = NoRoute
    /\ g_paused = FALSE
    /\ LoopIdle
    /\ state = FreshState("generate_report", "unset", TRUE)
    /\ OrchIdle
    /\ RetIdle
    /\ SessIdle

\* one step of the graph: the node runs, then its edge is followed
GraphStep ==
    /\ g_node \in GraphNodes /\ ~g_paused
    /\ \E in \in NodeInputs :
         \E st \in {node(g_node, g_state, in)} :
            /\ g_state' = st
            /\ IF g_node \in Branching
               THEN \E v \in {route(g_node, st)} :
                      /\ g_route' = [from |-> g_node, value |-> v]
                      /\ g_node' = IF v \in DOMAIN targets(g_node)
                                   THEN targets(g_node)[v] ELSE NoTarget
               ELSE g_route' = g_route /\ g_node' = edge(g_node)
    /\ g_paused' = (g_node' \in interrupt_before)
    /\ UNCHANGED <<loopVars, state, orchVars, retVars, sessVars>>

\* main at an interrupt: the handler of the phase writes its values and the
\* graph is streamed again
GraphResume ==
    /\ g_paused /\ g_state.wait_for_user
    /\ \E values \in route_hitl(g_state) : g_state' = written(g_state, values)
    /\ g_paused' = FALSE
    /\ UNCHANGED <<g_node, g_route, loopVars, state, orchVars, retVars, sessVars>>

\* the next message of the session: main streams the graph from its entry
\* with the new user_query, on the state checkpointed under the thread_id
GraphMessage ==
    /\ g_node \notin GraphNodes \/ g_paused
    /\ \E w \in QueryWords : g_state' = [g_state EXCEPT !.query_word = w]
    /\ g_node' = "intent"
    /\ g_paused' = FALSE
    /\ UNCHANGED <<g_route, loopVars, state, orchVars, retVars, sessVars>>

NextGraph == GraphStep \/ GraphResume \/ GraphMessage
SpecGraph == InitGraph /\ [][NextGraph]_vars


Init == InitRag
Next == RagStart \/ RagFeedback \/ HitlStart \/ HitlFeedback
Spec == Init /\ [][Next]_vars

(***************************************************************************)
(* Properties of the refinement loop                                       *)
(***************************************************************************)
NoRepeat(docs) == \A i, j \in 1..Len(docs) : i # j => docs[i] # docs[j]

RECURSIVE IsSubsequence(_, _)
IsSubsequence(a, b) ==
    IF a = <<>> THEN TRUE
    ELSE IF b = <<>> THEN FALSE
    ELSE IF a[1] = b[1] THEN IsSubsequence(Tail(a), Tail(b))
    ELSE IsSubsequence(a, Tail(b))

\* the in-range positions a typed selection names
Positions(parts, n) ==
    {i \in 1..n : \E j \in 1..Len(parts) :
        \/ parts[j].k = "n" /\ parts[j].a = i
        \/ parts[j].k = "r" /\ parts[j].a <= i /\ i <= parts[j].b}

\* the documents at the positions S, each once, in their order in docs
DocsAt(docs, S) ==
    [j \in 1..Cardinality(S) |->
        docs[CHOOSE i \in S : Cardinality({x \in S : x < i}) = j - 1]]

\* C1: the loop counter never exceeds MAX_LOOPS = 3, no more than 3 decisions
\* (hence requery rounds) are taken, and the loop has exited once the counter
\* reaches 3, whatever the decisions are.
C1_LoopBounded ==
    /\ feedback_loop_count <= 3
    /\ decisions <= 3
    /\ feedback_loop_count >= 3 => pc # "await"

C1_Witness ==
    /\ pc = "done" /\ feedback_loop_count = 3 /\ decisions = 3
    /\ last.action = "research_keyword" /\ last.requeried
    /\ before_last.action = "research_keyword" /\ before_last.requeried

\* C4: after any sequence of feedback decisions the working document set
\* holds no two entries with the same identity key (identical documents have
\* the same partition and the same content prefix).
C4_NoDuplicateKeys == decisions > 0 => NoRepeat(final_docs)

\* C5: a keyword or partition requery keeps every document the working set
\* held before it.
C5_RequeryAdditive == last.requeried => Range(prev_docs) \subseteq Range(final_docs)

FirstAcceptAll ==
    decisions = 1 /\ pc = "done" /\ last.action = "accept_all" /\ ~last.web

Returned == IF flow = "run" THEN state.retrieved_docs ELSE result.docs

PartialSelection ==
    /\ decisions > 0
    /\ last_input.action = Chose("2")
    /\ last_input.selection.replied
    /\ ~ParseSelectionRaises(last_input.selection.parts)
    /\ shown_docs # <<>>

\* C7 (as claimed): select_partial returns exactly the documents at the
\* selected in-range positions, each once, in original order, for any
\* selection of indices, and the loop terminates.
C7_SelectPartialExact ==
    PartialSelection =>
        /\ final_docs = DocsAt(shown_docs,
                               Positions(last_input.selection.parts, Len(shown_docs)))
        /\ pc = "done"

\* C7 (amended): when at least one selected index is in range, select_partial
\* returns exactly the documents at the selected in-range positions, each
\* once, in original order; when none is in range all presented documents
\* are returned; the loop terminates in both cases.
C7_SelectPartialInRange ==
    PartialSelection =>
        LET S == Positions(last_input.selection.parts, Len(shown_docs))
        IN  /\ S # {} => final_docs = DocsAt(shown_docs, S) /\ last.action = "select_partial"
            /\ S = {} => final_docs = shown_docs /\ last.action = "accept_all"
            /\ pc = "done"
            /\ Returned = final_docs

C7_Witness ==
    /\ PartialSelection
    /\ Len(shown_docs) = 5
    /\ Positions(last_input.selection.parts, 5) = {1, 3}
    /\ final_docs = <<shown_docs[1], shown_docs[3]>>

\* C8: two keyword requeries in a row with the same keywords (the index is
\* never changed) leave a merged set of the same size.
C8_RequeryIdempotent ==
    (/\ last.requeried /\ last.action = "research_keyword"
     /\ before_last.requeried /\ before_last.action = "research_keyword"
     /\ last.kw = before_last.kw)
        => last.size = before_last.size

\* C9: after every requery merge the working set holds at most 15 documents.
C9_MergeCapped == last.requeried => Len(final_docs) <= 15

C9_Witness == last.requeried /\ Len(final_docs) = 15 /\ decisions = 1

(***************************************************************************)
(* Properties of the orchestrator                                          *)
(***************************************************************************)
\* C2: every decision the orchestrator acts on is one of RAGAgent,
\* WebSearchAgent, ReportWriterAgent, END; when the reasoning call answers a
\* name outside that set, the fallback rule table decides instead.
C2_DecisionInActionSet ==
    o_resp # NoResponse =>
        /\ o_next \in {"RAGAgent", "WebSearchAgent", "ReportWriterAgent", "END"}
        /\ o_resp.name \notin {"RAGAgent", "WebSearchAgent", "ReportWriterAgent", "END"}
              => o_next = fallback_decision(o_at)

\* C3: when the reasoning call fails, answers without a tool call, or answers
\* a tool call whose arguments do not parse, decide_next_agent returns what
\* the fallback rule table gives for the same state (a value, no exception).
C3_FailureFallsBack ==
    o_resp.kind \in {"failed", "no_tool", "bad_args"} =>
        /\ o_next = fallback_decision(o_at)
        /\ o_next \in {"RAGAgent", "WebSearchAgent", "ReportWriterAgent", "END"}

C3_Witness ==
    /\ o_resp = [kind |-> "bad_args", name |-> "END"]
    /\ o_next = "RAGAgent"
    /\ state.next_agent = "RAGAgent"

(***************************************************************************)
(* Properties of the retriever                                             *)
(***************************************************************************)
\* the partitions of a plan: its db_list and its fallback partition
PlanPartitions(p) == Range(p.db_list) \cup (IF p.fallback THEN {p.fallback_db} ELSE {})

WebPending(st) ==
    /\ ~st.web_search_completed
    /\ \/ st.web_search_requested
       \/ st.user_intent # "search_only" /\ Len(st.retrieved_docs) < 3

\* composition is pending: a report is wanted and the report or its DOCX
\* is missing
CompositionPending(st) ==
    /\ st.user_intent # "search_only"
    /\ st.report_text = "" \/ st.docx_path \in {"", "None"}

\* C11: the fallback decision follows a fixed priority order: retrieval when
\* no documents are held, whatever the other flags; else web search when web
\* augmentation is pending; else composition when the report or the DOCX is
\* missing; END only when nothing is pending.
C11_FallbackPriority ==
    o_pc = "ruled" =>
        /\ o_at.retrieved_docs = <<>> => o_next = "RAGAgent"
        /\ (o_at.retrieved_docs # <<>> /\ WebPending(o_at)) => o_next = "WebSearchAgent"
        /\ (o_at.retrieved_docs # <<>> /\ ~WebPending(o_at) /\ CompositionPending(o_at))
              => o_next = "ReportWriterAgent"
        /\ o_next = "END" <=>
              (o_at.retrieved_docs # <<>> /\ ~WebPending(o_at) /\ ~CompositionPending(o_at))

C11_Witness ==
    /\ o_pc = "ruled" /\ o_next = "WebSearchAgent"
    /\ o_at.web_search_requested /\ o_at.report_text = "" /\ Len(o_at.retrieved_docs) >= 3

(***************************************************************************)
(* Properties of the partition plan                                        *)
(***************************************************************************)
\* C12: every sanitized plan in use for a round lists at least 1 and at
\* most 3 partitions.
C12_PlanSize ==
    plan # NoPlan => (Len(plan.db_list) >= 1 /\ Len(plan.db_list) <= 3)

\* the plan of a routing round, as the router gave it and as it is used
RoundRaw == r_in.raw
RoundPlan == sanitize_plan(r_in.raw)

\* C13 (as stated): each unknown name of a plan is replaced, where it stands,
\* by the default partition 08_general.
C13_UnknownReplaced ==
    (r_pc = "round" /\ UnknownDb \in Range(RoundRaw.db_list)) =>
        /\ Len(RoundPlan.db_list) = Len(RoundRaw.db_list)
        /\ \A i \in 1..Len(RoundRaw.db_list) :
              RoundPlan.db_list[i] =
                 IF InCatalog(RoundRaw.db_list[i]) THEN RoundRaw.db_list[i] ELSE GeneralDb

\* C13 (amended): unknown names are removed from the plan's list, the catalog
\* names keeping their order; the default partition 08_general stands in
\* only when no catalog name remains; an unknown fallback partition is
\* replaced by the default when the fallback flag is set.
C13_UnknownDropped ==
    r_pc = "round" =>
        /\ \A i \in 1..Len(RoundPlan.db_list) : InCatalog(RoundPlan.db_list[i])
        /\ SelectSeq(RoundRaw.db_list, InCatalog) # <<>>
              => RoundPlan.db_list = SelectSeq(RoundRaw.db_list, InCatalog)
        /\ SelectSeq(RoundRaw.db_list, InCatalog) = <<>>
              => RoundPlan.db_list = <<GeneralDb>>
        /\ RoundPlan.fallback = RoundRaw.fallback
        /\ RoundPlan.fallback
              => RoundPlan.fallback_db =
                    IF InCatalog(RoundRaw.fallback_db) THEN RoundRaw.fallback_db
                    ELSE GeneralDb

C13_Witness ==
    /\ r_pc = "round"
    /\ UnknownDb \in Range(RoundRaw.db_list)
    /\ RoundPlan.db_list = <<"05_crane", "05_crane">>
    /\ r_out.ok /\ r_out.docs # <<>>

\* the reply to the partition prompt names only a number outside the catalog
NamesUnknownPartition(reply) ==
    /\ reply.replied /\ reply.parts # <<>>
    /\ \A i \in 1..Len(reply.parts) :
          reply.parts[i].k = "n" /\ reply.parts[i].a > Len(available_dbs)

\* C14: a partition requery that names an unknown partition completes without
\* error and searches the default general partition in its place.
C14_UnknownRequeryDefaults ==
    (decisions > 0 /\ last.action = "research_db"
       /\ NamesUnknownPartition(last_input.dbsel)) =>
        /\ last.requeried
        /\ corpus[GeneralDb] > 0 =>
              \E i \in 1..Len(final_docs) :
                 final_docs[i].db = GeneralDb /\ final_docs[i] \notin Range(prev_docs)

\* what the selected partitions of the round's plan returned, before the
\* fallback partition is considered
RoundFirst == search_documents(r_in.world, RoundPlan.db_list, r_in.q, SearchTopK)

\* C15: the fallback partition is queried only if the plan's fallback flag is
\* set and the selected partitions returned fewer than 3 documents; with 3 or
\* more documents, or without the flag, the round returns the selected
\* partitions' documents alone.
C15_FallbackOnlyWhenShort ==
    (r_pc = "round" /\ r_out.ok) =>
        /\ (~RoundPlan.fallback \/ Len(RoundFirst.docs) >= FallbackThreshold)
              => r_out.docs = Take(RoundFirst.docs, InitialCap)
        /\ r_out.docs # Take(RoundFirst.docs, InitialCap)
              => /\ RoundPlan.fallback
                 /\ Len(RoundFirst.docs) < FallbackThreshold
                 /\ \A i \in Len(RoundFirst.docs) + 1 .. Len(r_out.docs) :
                       r_out.docs[i].db = RoundPlan.fallback_db

\* the flag is set and the fallback partition has an index, but the selected
\* partition returned 3 documents or more: the fallback is left alone
C15_Witness ==
    /\ r_pc = "round" /\ r_out.ok
    /\ RoundPlan.fallback /\ HasIndex(r_in.world, RoundPlan.fallback_db)
    /\ RoundPlan.fallback_db \notin Range(RoundPlan.db_list)
    /\ Len(RoundFirst.docs) >= FallbackThreshold
    /\ r_out.docs = RoundFirst.docs

\* the flag is set and the selected partitions returned fewer than 3
\* documents: documents of the fallback partition are appended
C15_WitnessQueried ==
    /\ r_pc = "round" /\ r_out.ok
    /\ RoundPlan.fallback /\ Len(RoundFirst.docs) < FallbackThreshold
    /\ Len(r_out.docs) > Len(RoundFirst.docs)

(***************************************************************************)
(* Failures and empty results of the retrieval calls                       *)
(***************************************************************************)
\* the corpus of the round without the partitions that cannot be read
ReadableWorld == [p \in CatalogDbs |->
                    IF r_in.world[p] = Unreadable THEN 0 ELSE r_in.world[p]]

\* C16: if the retrieval from one partition of a round fails, the failure is
\* skipped and the documents of the other partitions are still returned.
C16_PartitionFailureSkipped ==
    (/\ r_pc = "round"
     /\ \E p \in Range(RoundPlan.db_list) : r_in.world[p] = Unreadable
     /\ \E p \in Range(RoundPlan.db_list) : r_in.world[p] > 0) =>
        /\ r_out.ok
        /\ r_out.docs = InitialSearch(ReadableWorld, RoundPlan, r_in.q).docs

\* the lexical-only ranking of a call: the fusion with no dense result
LexicalOnly ==
    retrieve(<<>>, get_relevant_documents(r_in.p, r_in.n, r_in.q, r_in.top_k * SparseFactor),
             CrossScore(r_in.q), r_in.top_k)

\* C17: when the dense (embedding) step fails, retrieve() does not abort: it
\* returns the lexical-only ranking.
C17_DenseFailureDegrades ==
    (r_pc = "one" /\ r_in.mode = "dense_raises" /\ r_in.n > 0) =>
        /\ r_out.ok
        /\ r_out.docs = LexicalOnly.docs

\* C18: a partition of the plan that has no index is skipped without raising,
\* and the remaining partitions of the plan are still searched: the round
\* returns what the indexed partitions of the list return, in the list's
\* order.
C18_MissingIndexSkipped ==
    (r_pc = "round" /\ r_in.world \in Worlds) =>
        /\ r_out.ok
        /\ RoundFirst.ok
        /\ RoundFirst.docs =
              search_documents(r_in.world,
                               SelectSeq(RoundPlan.db_list,
                                         LAMBDA p : HasIndex(r_in.world, p)),
                               r_in.q, SearchTopK).docs
        /\ \A p \in Range(RoundPlan.db_list) :
              HasIndex(r_in.world, p) =>
                 \E i \in 1..Len(RoundFirst.docs) : RoundFirst.docs[i].db = p

\* 01_bridge, first of the list, has no index; 05_crane after it is searched
C18_Witness ==
    /\ r_pc = "round" /\ r_out.ok
    /\ RoundPlan.db_list = <<"01_bridge", "05_crane">>
    /\ ~HasIndex(r_in.world, "01_bridge") /\ HasIndex(r_in.world, "05_crane")
    /\ r_out.docs # <<>>
    /\ \A i \in 1..Len(r_out.docs) : r_out.docs[i].db = "05_crane"

C20_NoReportFromEmpty ==
    (state.retrieved_docs = <<>> /\ ~state.docs_text) =>
        /\ state.report_text = ""
        /\ state.docx_path # "path"

(***************************************************************************)
(* Web augmentation and the decisions of the feedback loop                 *)
(***************************************************************************)
\* C21: WebSearchAgent is run only in a session whose user asked for web
\* search in the feedback loop (web_search_requested).
C21_WebOnlyOnEscalate ==
    (o_resp \in FailedResponses /\ o_next = "WebSearchAgent") =>
        o_at.web_search_requested

\* the last decision was the web-search choice, made on a non-empty list
Escalated ==
    decisions > 0 /\ last_input.action = Chose("5") /\ prev_docs # <<>>

WebFlagSet ==
    IF flow = "run" THEN state.web_search_requested
    ELSE result.returned /\ result.web_search_requested

C23_NoBranchWithoutDecision ==
    (decisions > 0 /\ last.action \in {"accept_all", "select_partial",
                                        "research_keyword", "research_db"}) =>
        last_input.action.replied

\* C24: a cancel decision leaves the loop, marks the session cancelled,
\* discards requery work and returns the last accepted document set.
C24_CancelMarksSession ==
    (decisions > 0 /\ last_input.action = Chose("cancel") /\ prev_docs # <<>>) =>
        /\ pc = "done" /\ ~last.requeried
        /\ last.action = "cancel"

(***************************************************************************)
(* The workflow of the orchestrator                                        *)
(***************************************************************************)
\* C25: in a search_only session ReportWriterAgent is never run and neither
\* a report nor a DOCX is produced.
C25_SearchOnlyNoReport ==
    state.user_intent = "search_only" =>
        /\ o_next # "ReportWriterAgent"
        /\ state.report_text = ""
        /\ state.docx_path = ""

(***************************************************************************)
(* Two rounds of one retriever                                             *)
(***************************************************************************)
\* C26: two consecutive retrieve() calls of one retriever with the same query
\* and no index update return identical ranked lists, and the first call
\* does not alter the stored documents.
C26_SecondRoundIdentical ==
    r_pc = "second" =>
        /\ r_out.docs = r_out.first
        /\ r_out.tagged = r_in.tagged

\* the ranked lists of the two rounds differ
C26_ListsDiffer == r_pc = "second" /\ r_out.docs # r_out.first

\* the orchestrator node is not inside an agent call
NodeReturned == pc \in {"idle", "done"}

C29_WitnessSuspended == pc = "await" /\ decisions > 0 /\ o_pc = "run"

\* documents of a list of (doc, score) pairs, and of a list of documents
ScoredDocs(scored) == {scored[j].doc : j \in 1..Len(scored)}
ListedDocs(docs) == {docs[j] : j \in 1..Len(docs)}

\* one retrieve() has merged its dense and lexical results
Merged == r_pc = "one" /\ r_in.mode # "dense_raises" /\ r_out.ok

\* C32: the merged candidate list holds exactly the documents of the dense
\* and of the lexical results, each once, in descending combined score; a
\* dense document scores alpha * dense_score + (1 - alpha) * (1 - rank / N),
\* with lexical part 0 when the lexical results do not hold it, and a
\* lexical-only document scores (1 - alpha) * (1 - rank / N).
C32_MergeExact ==
    Merged =>
        /\ ScoredDocs(r_out.hybrid) = ScoredDocs(r_out.dense) \cup ListedDocs(r_out.sparse)
        /\ Len(r_out.hybrid) = Cardinality(ScoredDocs(r_out.hybrid))
        /\ \A i, j \in 1..Len(r_out.hybrid) :
              i < j => r_out.hybrid[i].score >= r_out.hybrid[j].score
        /\ \A i \in 1..Len(r_out.hybrid) :
              \/ \E j \in 1..Len(r_out.dense) :
                    /\ r_out.dense[j].doc = r_out.hybrid[i].doc
                    /\ r_out.hybrid[i].score =
                          FusionScoreAt(AlphaPct, r_out.dense[j].score,
                                        SparseRank(r_out.sparse, r_out.hybrid[i].doc),
                                        Len(r_out.sparse))
              \/ /\ r_out.hybrid[i].doc \notin ScoredDocs(r_out.dense)
                 /\ r_out.hybrid[i].score =
                       FusionScoreAt(AlphaPct, 0,
                                     SparseRank(r_out.sparse, r_out.hybrid[i].doc),
                                     Len(r_out.sparse))

\* a merge of a dense document the lexical results do not hold with
\* lexical-only documents
C32_Witness ==
    /\ Merged
    /\ ScoredDocs(r_out.dense) \ ListedDocs(r_out.sparse) # {}
    /\ ListedDocs(r_out.sparse) \ ScoredDocs(r_out.dense) # {}

\* a merge of dense documents the lexical results hold as well, with
\* lexical-only documents
C32_WitnessShared ==
    /\ Merged
    /\ ScoredDocs(r_out.dense) \cap ListedDocs(r_out.sparse) # {}
    /\ ListedDocs(r_out.sparse) \ ScoredDocs(r_out.dense) # {}

\* C33: the fused candidates handed to the reranker number at most 4k, and
\* the reranked output is cut to at most k documents.
C33_CandidatesBounded ==
    Merged =>
        /\ Len(r_out.hybrid) <= SparseFactor * r_in.top_k
        /\ Len(r_out.docs) <= r_in.top_k

\* C35: _hybrid_merge completes when the lexical results are empty and the
\* dense results are not, and returns the dense documents in the order of
\* their dense scores.
C35_DenseOnlyMerges ==
    (r_pc = "one" /\ r_in.mode = "dense_only" /\ r_in.n > 0) =>
        (r_out.ok /\ DocsOf(r_out.hybrid) = DocsOf(r_out.dense))

\* C31: when a completed search_only session is continued with intent
\* generate_report, the workflow does not stop before the report and the
\* DOCX have been produced: the is_complete flag of the earlier run does not
\* end it after the first step.
C31_ContinuedRunsOn ==
    [][(o_pc = "continued" /\ o_pc' = "stopped")
          => (state'.report_text # "" /\ state'.docx_path = "path")]_vars

\* C30: with the rule table deciding every step, the workflow reaches END
\* after finitely many steps whatever the stages return.
C30_ReachesEnd == <>(o_pc = "stopped" /\ state.is_complete)

\* the rule table selects the stage it selected in the step before, on a
\* session state that stage left as it found it
C30_SameStageAgain ==
    o_pc = "run" /\ NodeReturned /\ o_runs >= 1 /\ state = [o_at EXCEPT !.next_agent = o_next]
        /\ fallback_decision(state) = o_next

\* the runs of main that have started and not returned: each is suspended
\* in route_hitl
ActiveFlows == {f \in Flows : s_pc[f] = "hitl"}

\* C28: the state of one session is processed by at most one run of the
\* message handler at a time, also when a second message arrives while a run
\* is suspended at a HITL point.
C28_OneActiveFlow == Cardinality(ActiveFlows) <= 1

\* C28: the writes of one run to the session's checkpoint are not separated
\* by a write of another run.
C28_WritesNotInterleaved ==
    \A i, j, k \in 1..Len(s_writes) :
        (i < j /\ j < k /\ s_writes[i] = s_writes[k]) => s_writes[j] = s_writes[i]

\* C27: for a fixed sparse rank, a fixed number of sparse results and a fixed
\* alpha in [0, 1], a larger dense score never gives a smaller combined score.
C27_FusionMonotone ==
    (r_pc = "fused" /\ r_in.ds1 <= r_in.ds2) => r_out.s1 <= r_out.s2

\* a larger dense score has been fused, with a weight that counts it
C27_Witness ==
    r_pc = "fused" /\ r_in.ds1 < r_in.ds2 /\ r_in.a > 0 /\ r_in.a < 100
        /\ r_in.sr > 0 /\ r_out.s1 < r_out.s2


\* C34: every value a conditional-edge function of the graph returns is a key
\* of the target map of its edge, also after rag_feedback with an intent
\* other than generate_report and after disambiguation.
C34_RouteDefined ==
    g_route # NoRoute => g_route.value \in DOMAIN targets(g_route.from)


\* run() has taken its first decision on asking for feedback
FirstAsked == flow = "run" /\ pc \in {"await", "done"} /\ decisions = 0

\* C36: should_enable_feedback lets an explicit enable_human_feedback setting
\* decide; without one it is false for csv_info, true for generate_report,
\* and for search_only true exactly when the search returned fewer than 3
\* documents, an empty result included.
C36_FeedbackPriority ==
    (FirstAsked /\ state.user_intent \in {"csv_info", "generate_report", "search_only"})
       => ((pc = "await") <=>
             IF state.enable_human_feedback # "unset"
             THEN state.enable_human_feedback = "on"
             ELSE CASE state.user_intent = "csv_info" -> FALSE
                    [] state.user_intent = "generate_report" -> TRUE
                    [] state.user_intent = "search_only" -> Len(initial_docs) < 3)


C38_PlanValid ==
    (r_pc = "round")
       => (/\ \A i \in 1..Len(RoundPlan.db_list) : RoundPlan.db_list[i] \in CatalogDbs
           /\ (CatalogDbs # {} => RoundPlan.db_list # <<>>)
           /\ (RoundPlan.fallback => RoundPlan.fallback_db \in CatalogDbs))

\* a round whose raw plan asks for a fallback partition the catalog does not
\* have, and names an unknown partition or none at all
C38_Witness ==
    /\ r_pc = "round"
    /\ r_in.raw.fallback /\ r_in.raw.fallback_db \notin CatalogDbs
    /\ RoundPlan.fallback

\* a round whose raw plan names an unknown partition among known ones
C38_WitnessDropped ==
    /\ r_pc = "round"
    /\ \E i \in 1..Len(r_in.raw.db_list) : r_in.raw.db_list[i] \notin CatalogDbs
    /\ Len(RoundPlan.db_list) < Len(r_in.raw.db_list)


\* C39: docx_path is set only in states that hold the report content
\* (summary_cause and summary_action_plan non-empty), and neither fallback
\* rule table asks for the DOCX while no report text exists.
C39_DocxAfterReport ==
    /\ state.docx_path # "" => state.summary_cause # ""
    /\ fallback_action(state) = "create_docx" => state.report_text # ""
    /\ (fallback_decision(state) = "ReportWriterAgent"
          /\ state.retrieved_docs # <<>> /\ state.report_text = "")
         => fallback_action(state) = "final_report"

\* a DOCX file was created from a report
C39_Witness ==
    /\ o_pc \in {"run", "stopped"} /\ o_runs > 0
    /\ state.docx_path = "path" /\ state.report_text # ""


\* what process() returned at the last decision
Processed == process(enable_advanced_processing, judge, prev_docs, last_input)
\* process() was given documents at the last decision
ProcessedSome == flow \in {"run", "chainlit"} /\ decisions > 0 /\ prev_docs # <<>>
\* the last decision was a partial selection that selects nothing
SelectedNone ==
    /\ get_user_action(last_input.action) = "2"
    /\ select_documents(shown_docs, last_input.selection) = <<>>

C40_WitnessUnparsable ==
    /\ ProcessedSome /\ SelectedNone
    /\ last_input.selection = Typed(<<N(2), Bad>>)
C40_WitnessNoReply ==
    /\ ProcessedSome /\ SelectedNone
    /\ last_input.selection = NoReply
C40_WitnessUnknownAction ==
    /\ ProcessedSome
    /\ last_input.action = Chose("cancel")

====
